---- MODULE Spec2Model ----
(***************************************************************************)
(* A model of the shared-ownership and concurrency programs of             *)
(* chapter-15/src/lib.rs (Rc, Weak, RefCell, Node trees) and               *)
(* chapter-16/src/lib.rs (mpsc channels, Mutex, Arc).                      *)
(* chapter-13/src/lib.rs gives the Counter iterator and the Cacher,         *)
(* chapter-12/src/lib.rs the line search of minigrep.                      *)
(*                                                                         *)
(* The specifications share the module, one or more per family:            *)
(*   SpecRc    Rc<Node> / Weak<Node> heaps built as in shared_list, tree   *)
(*   SpecCell  one RefCell<String> (Person.name) and its guards            *)
(*   SpecChan  one mpsc channel with cloned Senders, one Receiver          *)
(*   SpecShare Arc<Mutex<i32>> shared by spawned threads                   *)
(*   SpecChanAny  the channel with try_recv and an early Receiver drop     *)
(*   SpecPoison   SpecShare with a thread that panics holding the guard    *)
(*   SpecWait     SpecShare with the threads parked in lock made visible   *)
(*   SpecCounter  Counter iterators and their calls of next                *)
(*   SpecOne      a run of any one of the programs                         *)
(*   SpecCycle    Rc<CycleList> lists whose tails can be redirected, as in *)
(*                reference_cycle                                          *)
(*   SpecMts      multiple_threads_share as written: nine threads, one     *)
(*                increment each, the scheduler fair                       *)
(*   SpecCacher   one Cacher and its calls of value                        *)
(*   SpecSearch   search(query, contents) of chapter-12 on bounded strings *)
(*   SpecThread   thread(): a spawned thread, the main loop and the join   *)
(*   SpecSpawn    a run of thread() or of channel(), the two programs of   *)
(*                one spawned thread                                        *)
(* Every specification leaves the variables of the other families as       *)
(* they were constructed.                                                  *)
(***************************************************************************)
EXTENDS Integers, Sequences, FiniteSets, TLC

\* ------------------------------------------------------------------ bounds
MaxNodes == 2          \* Rc<Node> allocations in one run
MaxStrong == 3         \* cap on the strong count of one allocation
MaxGuards == 3         \* Ref / RefMut guards of the RefCell that can be held at once
MaxPush == 3           \* characters pushed onto Person.name in one run
NumThreads == 3        \* threads spawned over the shared counter
Increments == 1        \* increments each thread makes, one as in the source
MaxCalls == 7          \* calls of next made on one Counter in one run
MaxLen == 5            \* characters in the contents that are searched
MaxQuery == 2          \* characters in the query
MaxArg == 4            \* the arguments given to Cacher::value are 0..MaxArg
MaxCells == 3          \* Rc<CycleList> allocations in one run: Nil, a and b in the source

\* ------------------------------------------------------------------- state
\* chapter-15: Rc<Node>, Weak<Node>
VARIABLES
    nNodes,      \* number of Rc::new calls so far; allocations are 1..nNodes
    value,       \* Node.value
    parent,      \* Node.parent: the target of the Weak, NoNode for Weak::new()
    children,    \* Node.children: the Rc handles the node owns
    strong,      \* control block: strong count
    weak,        \* control block: weak count, plus one held by the strong handles together
    destroyed,   \* how many times the Node value of the allocation was dropped
    freed,       \* how many times the control block was deallocated
    locals,      \* Rc handles held by local variables and temporaries
    rcLast,      \* the last Rc operation and what it returned
    uaf          \* some operation went through a handle to a dropped value

rcVars == <<nNodes, value, parent, children, strong, weak, destroyed, freed,
            locals, rcLast, uaf>>

\* chapter-15: Person.name, a RefCell<String>
VARIABLES
    borrowFlag,  \* RefCell borrow state: 0 unborrowed, n > 0 shared by n, -1 exclusive
    guards,      \* the guards held: "read" (Ref), "write" (RefMut) or "none" per slot
    name,        \* the String inside the RefCell
    cellLast,    \* how the last borrow / borrow_mut ended: "ok" or "panic"
    cellOp       \* the last operation on the RefCell

cellVars == <<borrowFlag, guards, name, cellLast, cellOp>>

\* chapter-16: mpsc::channel()
VARIABLES
    senders,     \* each Sender handle: "none" (not created), "live" or "dropped"
    sent,        \* how many of its vals the thread owning the handle has sent
    queue,       \* the messages in the channel, oldest first
    received,    \* the messages recv has returned, in order
    rxState,     \* the Receiver: "open", "ended" (recv returned Err) or "dropped"
    recvLast,    \* what the last recv or try_recv returned: "msg", "closed" or "empty"
    recvOp,      \* which of the two the last one was: "recv" or "try_recv"
    sendLast     \* what the last send returned: "ok" or "closed"

chanVars == <<senders, sent, queue, received, rxState, recvLast, recvOp, sendLast>>

\* chapter-16: Arc<Mutex<i32>> shared by the spawned threads
VARIABLES
    arcStrong,     \* Arc: strong count
    arcDestroyed,  \* how many times the Mutex inside the Arc was dropped
    locked,        \* Mutex: locked
    guard,         \* the threads that hold a MutexGuard
    counter,       \* the i32 inside the Mutex
    mainPc,        \* the main thread: "spawn", "join", "drop" or "done"
    spawned,       \* threads spawned so far
    joined,        \* handles joined so far
    pc,            \* each spawned thread's position
    tmp,           \* each thread's register in *num += 1
    iter,          \* increments each thread has completed
    poisoned,      \* Mutex: the poison flag
    panicked,      \* the threads that panicked
    lockLast,      \* what the last lock returned: "ok" or "poisoned" ("none" before)
    waitq,         \* the threads parked in lock, in the order they started waiting
    grantPos       \* the place in waitq the last lock was granted from, 0 if not parked

poisonVars == <<poisoned, panicked, lockLast>>
waitVars == <<waitq, grantPos>>

shareVars == <<arcStrong, arcDestroyed, locked, guard, counter, mainPc, spawned,
               joined, pc, tmp, iter, poisonVars, waitVars>>

\* chapter-13: Counter, the iterator
VARIABLES
    count,       \* Counter.count, a u32
    calls,       \* how many times next was called on the Counter since Counter::new()
    made,        \* how many of those calls this run made
    nextLast,    \* what the last next returned: Some(v) or None
    overflowed   \* "no", or how count += 1 overflowed: "panic" or "wrap"

cntVars == <<count, calls, made, nextLast, overflowed>>

\* chapter-16: thread(), one spawned thread and the main thread
VARIABLES
    mainAt,      \* where the main thread is: "spawn", "print", "sleep", "join", "returned"
    mainI,       \* i of the main thread's for loop
    mainHi,      \* lines the main thread has printed
    handleAt,    \* where the spawned thread is: "none", "print", "sleep", "done"
    handleI,     \* i of the spawned thread's for loop
    handleHi     \* lines the spawned thread has printed

thrVars == <<mainAt, mainI, mainHi, handleAt, handleI, handleHi>>

\* chapter-15: Rc<CycleList>, the list whose tail can be redirected
VARIABLES
    nCells,      \* number of Rc::new calls so far; allocations are 1..nCells
    kind,        \* the variant of each CycleList: "Cons", "Nil", or "none" before Rc::new
    cells,       \* control blocks and tails, a record shaped as Heap: Cons(_, tail) keeps
                 \* its Rc in children, a sequence of length one
    held         \* Rc handles held by locals and temporaries, per allocation

cycVars == <<nCells, kind, cells, held>>

\* chapter-13: Cacher, the closure with its cached result
VARIABLES
    cached,      \* Cacher.value, an Option<u32>
    invoked,     \* how many times (self.calculation)(arg) has run
    valueCalls,  \* how many times Cacher::value has been called
    firstArg,    \* the argument of the first call of value
    lastArg,     \* the argument of the last call of value
    lastValue    \* what the last call of value returned, NotCalled before the first

cacherVars == <<cached, invoked, valueCalls, firstArg, lastArg, lastValue>>

\* chapter-12: search(query, contents)
VARIABLES
    query,       \* the &str searched for, a sequence of characters
    contents,    \* the &str searched, a sequence of characters with its newlines
    results,     \* the Vec<&str> that search returned
    searched     \* whether search has returned

searchVars == <<query, contents, results, searched>>

\* chapter-16: multiple_threads_share with the thread count of the source
VARIABLES
    mtsMain,     \* where the main thread is: "spawn", "join", "returned"
    mtsHandles,  \* handles pushed so far: the threads 1..mtsHandles are spawned
    mtsJoined,   \* handles joined so far
    mtsPc,       \* where each thread is: "none", "lock", "add", "end", "done"
    mtsLocked,   \* whether the Mutex is locked
    mtsNum       \* the i32 in the Mutex

mtsVars == <<mtsMain, mtsHandles, mtsJoined, mtsPc, mtsLocked, mtsNum>>

vars == <<rcVars, cellVars, chanVars, shareVars, cntVars, thrVars, cycVars, cacherVars, searchVars, mtsVars>>

\* what the operations of one family leave alone
RcFrame == UNCHANGED <<cellVars, chanVars, shareVars, cntVars, thrVars, cycVars, cacherVars, searchVars, mtsVars>>
CellFrame == UNCHANGED <<rcVars, chanVars, shareVars, cntVars, thrVars, cycVars, cacherVars, searchVars, mtsVars>>
ChanFrame == UNCHANGED <<rcVars, cellVars, shareVars, cntVars, thrVars, cycVars, cacherVars, searchVars, mtsVars>>
ShareFrame == UNCHANGED <<rcVars, cellVars, chanVars, cntVars, thrVars, cycVars, cacherVars, searchVars, mtsVars>>
CntFrame == UNCHANGED <<rcVars, cellVars, chanVars, shareVars, thrVars, cycVars, cacherVars, searchVars, mtsVars>>
ThrFrame == UNCHANGED <<rcVars, cellVars, chanVars, shareVars, cntVars, cycVars, cacherVars, searchVars, mtsVars>>
CycFrame == UNCHANGED <<rcVars, cellVars, chanVars, shareVars, cntVars, thrVars, cacherVars, searchVars, mtsVars>>
CacherFrame == UNCHANGED <<rcVars, cellVars, chanVars, shareVars, cntVars, thrVars, cycVars, searchVars, mtsVars>>
SearchFrame == UNCHANGED <<rcVars, cellVars, chanVars, shareVars, cntVars, thrVars, cycVars, cacherVars, mtsVars>>
MtsFrame == UNCHANGED <<rcVars, cellVars, chanVars, shareVars, cntVars, thrVars, cycVars, cacherVars, searchVars>>

\* =================================================================== Rc/Weak
\* chapter-15/src/lib.rs: Rc, Weak and the Node tree. The RefCells around
\* Node.parent and Node.children are borrowed and released inside one statement
\* (lines 275, 278) and never conflict; their borrow state is not kept here.

Nodes == 1..MaxNodes
NoNode == 0
LeafValue == 3        \* tree: leaf   = Rc::new(Node { value: 3, .. })
BranchValue == 5      \* tree: branch = Rc::new(Node { value: 5, .. })
Dropped == -1          \* what reading a dropped value yields

Allocated == 1..nNodes

Heap == [strong |-> strong, weak |-> weak, destroyed |-> destroyed,
         freed |-> freed, parent |-> parent, children |-> children]

\* "if the number of references is 0, the value is dropped"
\* (faulty variant: the value goes one handle too early)
LastStrongEarly(s) == s <= 1
LastStrong(s) == s = 0

\* drop of a Weak (or of the weak reference the strong handles hold together):
\* the control block goes when no reference of either kind is left
\* (faulty variant: the block goes with the value, whatever Weak is left)
DecWeakFreesEarly(h, n) ==
    IF n = NoNode
    THEN h
    ELSE LET w == h.weak[n] - 1
         IN [h EXCEPT !.weak[n] = w,
                      !.freed[n] = IF w = 0 \/ h.strong[n] = 0 THEN @ + 1 ELSE @]

DecWeak(h, n) ==
    IF n = NoNode
    THEN h
    ELSE LET w == h.weak[n] - 1
         IN [h EXCEPT !.weak[n] = w,
                      !.freed[n] = IF w = 0 THEN @ + 1 ELSE @]

RECURSIVE DropRc(_, _)
RECURSIVE DropAll(_, _)

\* drop of one Rc handle to n: the count falls, and at the last handle the Node
\* is dropped with its fields (parent, then children) before the block is released
DropRc(h, n) ==
    LET s == h.strong[n] - 1
        h1 == [h EXCEPT !.strong[n] = s]
    IN IF ~LastStrong(s)
       THEN h1
       ELSE LET h2 == [h1 EXCEPT !.destroyed[n] = @ + 1,
                                 !.parent[n] = NoNode,
                                 !.children[n] = <<>>]
                h3 == DecWeak(h2, h1.parent[n])
                h4 == DropAll(h3, h1.children[n])
            IN DecWeak(h4, n)

\* (faulty variant: the children vector is forgotten)
DropAllSkip(h, cs) == h
DropAll(h, cs) ==
    IF cs = <<>> THEN h ELSE DropAll(DropRc(h, Head(cs)), Tail(cs))

SetHeap(h) ==
    /\ strong' = h.strong
    /\ weak' = h.weak
    /\ destroyed' = h.destroyed
    /\ freed' = h.freed
    /\ parent' = h.parent
    /\ children' = h.children

\* *handle: the value behind a handle
Deref(n) == IF destroyed[n] > 0 THEN Dropped ELSE value[n]

\* Rc::strong_count / Rc::weak_count as the program sees them
StrongCount(n) == strong[n]
WeakCount(n) == IF strong[n] > 0 THEN weak[n] - 1 ELSE weak[n]

RcOp(op, n, pre, res, val) ==
    [op |-> op, node |-> n, pre |-> pre, res |-> res, val |-> val]

NoRcOp == RcOp("other", NoNode, 0, NoNode, 0)

RcInit ==
    /\ nNodes = 0
    /\ value = [n \in Nodes |-> 0]
    /\ parent = [n \in Nodes |-> NoNode]
    /\ children = [n \in Nodes |-> <<>>]
    /\ strong = [n \in Nodes |-> 0]
    /\ weak = [n \in Nodes |-> 0]
    /\ destroyed = [n \in Nodes |-> 0]
    /\ freed = [n \in Nodes |-> 0]
    /\ locals = [n \in Nodes |-> 0]
    /\ rcLast = NoRcOp
    /\ uaf = FALSE

\* Rc::new(Node { value: 3, parent: RefCell::new(Weak::new()), children: RefCell::new(vec![]) })
RcNew ==
    /\ nNodes < MaxNodes
    /\ LET n == nNodes + 1
       IN /\ nNodes' = n
          /\ value' = [value EXCEPT ![n] = LeafValue]
          /\ strong' = [strong EXCEPT ![n] = 1]
          /\ weak' = [weak EXCEPT ![n] = 1]
          /\ locals' = [locals EXCEPT ![n] = 1]
          /\ rcLast' = NoRcOp
    /\ UNCHANGED <<parent, children, destroyed, freed, uaf>>
    /\ RcFrame

\* Rc::new(Node { value: 5, parent: ..Weak::new(), children: ..vec![Rc::clone(&c)] })
NewBranch(c) ==
    /\ nNodes < MaxNodes
    /\ locals[c] > 0
    /\ strong[c] < MaxStrong
    /\ LET n == nNodes + 1
       IN /\ nNodes' = n
          /\ value' = [value EXCEPT ![n] = BranchValue]
          /\ strong' = [strong EXCEPT ![n] = 1, ![c] = @ + 1]
          /\ weak' = [weak EXCEPT ![n] = 1]
          /\ children' = [children EXCEPT ![n] = <<c>>]
          /\ locals' = [locals EXCEPT ![n] = 1]
          /\ rcLast' = NoRcOp
    /\ UNCHANGED <<parent, destroyed, freed, uaf>>
    /\ RcFrame

\* (faulty variant: "a.clone() creates a deep copy", a second allocation)
RcCloneDeep(n) ==
    /\ locals[n] > 0
    /\ nNodes < MaxNodes
    /\ LET m == nNodes + 1
       IN /\ nNodes' = m
          /\ value' = [value EXCEPT ![m] = value[n]]
          /\ strong' = [strong EXCEPT ![m] = 1]
          /\ weak' = [weak EXCEPT ![m] = 1]
          /\ locals' = [locals EXCEPT ![m] = 1]
          /\ rcLast' = RcOp("clone", n, strong[n], m, Deref(n))
    /\ UNCHANGED <<parent, children, destroyed, freed, uaf>>
    /\ RcFrame

\* Rc::clone(&n): "only increments the reference count, not making a deep copy"
RcClone(n) ==
    /\ locals[n] > 0
    /\ strong[n] < MaxStrong
    /\ strong' = [strong EXCEPT ![n] = @ + 1]
    /\ locals' = [locals EXCEPT ![n] = @ + 1]
    /\ rcLast' = RcOp("clone", n, strong[n], n, Deref(n))
    /\ UNCHANGED <<nNodes, value, parent, children, weak, destroyed, freed, uaf>>
    /\ RcFrame

\* what one drop did: the values it dropped, and the Weak parents dropped with them
DestroyedBy(h) == Cardinality({m \in Nodes : h.destroyed[m] # destroyed[m]})
WeaksDroppedBy(h) ==
    Cardinality({m \in Nodes : h.destroyed[m] # destroyed[m] /\ parent[m] # NoNode})

\* a handle held by a local goes out of scope
RcDrop(n) ==
    /\ locals[n] > 0
    /\ locals' = [locals EXCEPT ![n] = @ - 1]
    /\ \E h \in {DropRc(Heap, n)} :
          /\ SetHeap(h)
          /\ rcLast' = RcOp("drop", n, strong[n], DestroyedBy(h), WeaksDroppedBy(h))
    /\ UNCHANGED <<nNodes, value, uaf>>
    /\ RcFrame

\* *c.parent.borrow_mut() = Rc::downgrade(&p): the weak count of p rises and the
\* Weak that was stored in c.parent is dropped
SetParent(c, p) ==
    /\ locals[c] > 0
    /\ locals[p] > 0
    /\ \E h \in {DecWeak([Heap EXCEPT !.weak[p] = @ + 1, !.parent[c] = p], parent[c])} :
          SetHeap(h)
    /\ rcLast' = NoRcOp
    /\ uaf' = (uaf \/ destroyed[c] > 0 \/ destroyed[p] > 0)
    /\ UNCHANGED <<nNodes, value, locals>>
    /\ RcFrame

\* Weak::upgrade fails when no strong handle is left (or the Weak is Weak::new())
\* (faulty variant: the strong count is not looked at)
UpgradeFailsNever(t) == t = NoNode
UpgradeFails(t) == t = NoNode \/ strong[t] = 0

\* c.parent.borrow().upgrade(): None, or a new Rc to the target of the Weak
Upgrade(c) ==
    /\ locals[c] > 0
    /\ LET t == parent[c]
       IN IF UpgradeFails(t)
          THEN /\ rcLast' = RcOp("upgrade", t, IF t = NoNode THEN 0 ELSE strong[t],
                                 NoNode, 0)
               /\ UNCHANGED <<strong, locals>>
          ELSE /\ strong[t] < MaxStrong
               /\ strong' = [strong EXCEPT ![t] = @ + 1]
               /\ locals' = [locals EXCEPT ![t] = @ + 1]
               /\ rcLast' = RcOp("upgrade", t, strong[t], t, Deref(t))
    /\ uaf' = (uaf \/ destroyed[c] > 0)
    /\ UNCHANGED <<nNodes, value, parent, children, weak, destroyed, freed>>
    /\ RcFrame

RcNext ==
    \/ RcNew
    \/ \E c \in Allocated : NewBranch(c)
    \/ \E n \in Allocated : RcClone(n)
    \/ \E n \in Allocated : RcDrop(n)
    \/ \E c \in Allocated, p \in Allocated : SetParent(c, p)
    \/ \E c \in Allocated : Upgrade(c)

\* =================================================================== RefCell
\* chapter-15/src/lib.rs: Person { name: RefCell<String>, .. } and its borrows.

GuardIds == 1..MaxGuards
Unborrowed == 0
Exclusive == -1
Pedro == <<"P", "e", "d", "r", "o">>

CellInit ==
    /\ borrowFlag = Unborrowed
    /\ guards = [g \in GuardIds |-> "none"]
    /\ name = Pedro
    /\ cellLast = "none"
    /\ cellOp = "none"

\* borrow_mut needs the cell unborrowed; borrow needs it not exclusively borrowed
\* (faulty variant: borrow_mut only refuses a second RefMut)
CanBorrowMutShared(f) == f >= 0
CanBorrowMut(f) == f = Unborrowed

\* (faulty variant: borrow does not look at the state)
CanBorrowAlways(f) == TRUE
CanBorrow(f) == f >= 0

\* (faulty variant: the borrow_mut that fails clears the borrow state)
BorrowMutResets(g) ==
    /\ guards[g] = "none"
    /\ IF CanBorrowMut(borrowFlag)
       THEN /\ borrowFlag' = Exclusive
            /\ guards' = [guards EXCEPT ![g] = "write"]
            /\ cellLast' = "ok"
       ELSE /\ cellLast' = "panic"
            /\ borrowFlag' = Unborrowed
            /\ UNCHANGED guards
    /\ cellOp' = "borrow_mut"
    /\ UNCHANGED name
    /\ CellFrame

\* let g = p.name.borrow_mut(): a RefMut, or a panic that leaves the cell as it was
BorrowMut(g) ==
    /\ guards[g] = "none"
    /\ IF CanBorrowMut(borrowFlag)
       THEN /\ borrowFlag' = Exclusive
            /\ guards' = [guards EXCEPT ![g] = "write"]
            /\ cellLast' = "ok"
       ELSE /\ cellLast' = "panic"
            /\ UNCHANGED <<borrowFlag, guards>>
    /\ cellOp' = "borrow_mut"
    /\ UNCHANGED name
    /\ CellFrame

\* let g = p.name.borrow(): a Ref, or a panic that leaves the cell as it was
Borrow(g) ==
    /\ guards[g] = "none"
    /\ IF CanBorrow(borrowFlag)
       THEN /\ borrowFlag' = borrowFlag + 1
            /\ guards' = [guards EXCEPT ![g] = "read"]
            /\ cellLast' = "ok"
       ELSE /\ cellLast' = "panic"
            /\ UNCHANGED <<borrowFlag, guards>>
    /\ cellOp' = "borrow"
    /\ UNCHANGED name
    /\ CellFrame

\* a guard goes out of scope
Release(g) ==
    /\ guards[g] # "none"
    /\ borrowFlag' = IF guards[g] = "write" THEN Unborrowed ELSE borrowFlag - 1
    /\ guards' = [guards EXCEPT ![g] = "none"]
    /\ cellOp' = "release"
    /\ UNCHANGED <<name, cellLast>>
    /\ CellFrame

\* g.push('A') through a RefMut
Push(g) ==
    /\ guards[g] = "write"
    /\ Len(name) < Len(Pedro) + MaxPush
    /\ name' = Append(name, "A")
    /\ cellOp' = "push"
    /\ UNCHANGED <<borrowFlag, guards, cellLast>>
    /\ CellFrame

\* Person::append_to_name: self.name.borrow_mut().push_str(..), the RefMut a
\* temporary released at the end of the statement
AppendToName ==
    /\ Len(name) < Len(Pedro) + MaxPush
    /\ IF CanBorrowMut(borrowFlag)
       THEN /\ name' = Append(name, "B")
            /\ cellLast' = "ok"
       ELSE /\ cellLast' = "panic"
            /\ UNCHANGED name
    /\ cellOp' = "append"
    /\ UNCHANGED <<borrowFlag, guards>>
    /\ CellFrame

CellNext ==
    \/ \E g \in GuardIds : BorrowMut(g)
    \/ \E g \in GuardIds : Borrow(g)
    \/ \E g \in GuardIds : Release(g)
    \/ \E g \in GuardIds : Push(g)
    \/ AppendToName

\* =================================================================== channel
\* chapter-16/src/lib.rs: multiple_messages, multiple_producers.

\* multiple_producers: tx, and tx1 = mpsc::Sender::clone(&tx)
NumSenders == 2
SenderIds == 1..NumSenders

\* let vals = vec![String::from("hi"), String::from("from"), ..]
Vals == <<"hi", "from", "the", "thread">>

Msg(h, i) == [src |-> h, val |-> Vals[i]]

ChanInit ==
    /\ senders = [h \in SenderIds |-> IF h = 1 THEN "live" ELSE "none"]
    /\ sent = [h \in SenderIds |-> 0]
    /\ queue = <<>>
    /\ received = <<>>
    /\ rxState = "open"
    /\ recvLast = "none"
    /\ recvOp = "none"
    /\ sendLast = "none"

\* let tx1 = mpsc::Sender::clone(&tx): one more producer handle on the same channel
SenderClone(h) ==
    /\ senders[h] = "live"
    /\ \E c \in SenderIds :
          /\ senders[c] = "none"
          /\ \A d \in SenderIds : d < c => senders[d] # "none"
          /\ senders' = [senders EXCEPT ![c] = "live"]
    /\ UNCHANGED <<sent, queue, received, rxState, recvLast, recvOp, sendLast>>
    /\ ChanFrame

\* where send puts the value: at the tail of the queue
\* (faulty variant: the value is put at the head)
EnqueueFront(q, m) == <<m>> \o q
Enqueue(q, m) == Append(q, m)

\* "a channel is said to be closed if either of the halves are dropped": for a
\* Sender, when the Receiver is gone
\* (faulty variant: send does not notice)
SendFailsNever(r) == FALSE
SendFails(r) == r = "dropped"

\* let (tx, rx) = mpsc::channel(): the queue has no capacity that send could
\* wait for
\* (faulty variant: a queue of one slot, as of mpsc::sync_channel(1))
HasRoomForOne(q) == Len(q) < 1
HasRoom(q) == TRUE

\* for val in vals { tx.send(val).unwrap(); .. }: one iteration of the thread that
\* owns handle h; with the Receiver gone send is Err and unwrap ends the thread
Send(h) ==
    /\ senders[h] = "live"
    /\ sent[h] < Len(Vals)
    /\ HasRoom(queue)
    /\ IF SendFails(rxState)
       THEN /\ senders' = [senders EXCEPT ![h] = "dropped"]
            /\ sendLast' = "closed"
            /\ UNCHANGED <<sent, queue>>
       ELSE /\ queue' = Enqueue(queue, Msg(h, sent[h] + 1))
            /\ sent' = [sent EXCEPT ![h] = @ + 1]
            /\ sendLast' = "ok"
            /\ UNCHANGED senders
    /\ UNCHANGED <<received, rxState, recvLast, recvOp>>
    /\ ChanFrame

\* the thread's closure returns after its loop: its Sender is dropped
SenderDrop(h) ==
    /\ senders[h] = "live"
    /\ sent[h] = Len(Vals)
    /\ senders' = [senders EXCEPT ![h] = "dropped"]
    /\ UNCHANGED <<sent, queue, received, rxState, recvLast, recvOp, sendLast>>
    /\ ChanFrame

\* "a channel is said to be closed if either of the halves are dropped": for the
\* Receiver, when no Sender handle is left
\* (faulty variant: one dropped Sender closes the channel)
DisconnectedAny(s) == \E h \in SenderIds : s[h] = "dropped"
Disconnected(s) == \A h \in SenderIds : s[h] # "live"

\* recv is Err only on an empty queue with every Sender gone
\* (faulty variant: the queue is not drained first)
RecvClosedEager(q, s) == Disconnected(s)
RecvClosed(q, s) == q = <<>> /\ Disconnected(s)

\* the message recv takes: the oldest
NextMessage(q) == Head(q)

\* for received in rx { .. }: one recv. It returns the oldest message, ends the
\* loop when the channel is closed, and otherwise blocks (is not enabled)
Recv ==
    /\ rxState = "open"
    /\ IF RecvClosed(queue, senders)
       THEN /\ recvLast' = "closed"
            /\ rxState' = "ended"
            /\ UNCHANGED <<queue, received>>
       ELSE /\ queue # <<>>
            /\ received' = Append(received, NextMessage(queue))
            /\ queue' = Tail(queue)
            /\ recvLast' = "msg"
            /\ UNCHANGED rxState
    /\ recvOp' = "recv"
    /\ UNCHANGED <<senders, sent, sendLast>>
    /\ ChanFrame

\* what try_recv answers: the oldest message if there is one, else whether a
\* Sender is still there to send one
\* (faulty variant: an empty queue counts as a closed channel)
TryResultClosedEarly(q, s) == IF q # <<>> THEN "msg" ELSE "closed"
TryResult(q, s) ==
    IF q # <<>> THEN "msg" ELSE IF Disconnected(s) THEN "closed" ELSE "empty"

\* "try_recv will not block the main thread": it answers at once
TryRecv ==
    /\ rxState = "open"
    /\ recvLast' = TryResult(queue, senders)
    /\ recvOp' = "try_recv"
    /\ IF TryResult(queue, senders) = "msg"
       THEN /\ received' = Append(received, NextMessage(queue))
            /\ queue' = Tail(queue)
       ELSE UNCHANGED <<queue, received>>
    /\ UNCHANGED <<senders, sent, rxState, sendLast>>
    /\ ChanFrame

\* channel: rx goes out of scope when the function returns, with the channel
\* still open
RxDropOpen ==
    /\ rxState = "open"
    /\ rxState' = "dropped"
    /\ UNCHANGED <<senders, sent, queue, received, recvLast, recvOp, sendLast>>
    /\ ChanFrame

\* rx goes out of scope at the end of the function
RxDrop ==
    /\ rxState = "ended"
    /\ rxState' = "dropped"
    /\ UNCHANGED <<senders, sent, queue, received, recvLast, recvOp, sendLast>>
    /\ ChanFrame

\* channel(): the spawned closure owns tx (handle 1) and sends one value,
\* String::from("hi"), which is Vals[1]; with the Receiver gone send is Err and
\* unwrap ends the thread
ChannelSend ==
    /\ sent[1] = 0
    /\ Send(1)

\* channel(): the closure returns after its send and tx is dropped
ChannelTxDrop ==
    /\ senders[1] = "live"
    /\ sent[1] = 1
    /\ senders' = [senders EXCEPT ![1] = "dropped"]
    /\ UNCHANGED <<sent, queue, received, rxState, recvLast, recvOp, sendLast>>
    /\ ChanFrame

\* channel(): let received = rx.recv().unwrap(), the one recv of the main thread
ChannelRecv ==
    /\ recvOp = "none"
    /\ Recv

\* channel(): println!("Got: {}", received) and the function returns, which
\* drops rx; after an Err of recv, unwrap panics and unwinding drops rx
ChannelReturn ==
    /\ recvOp = "recv"
    /\ rxState \in {"open", "ended"}
    /\ rxState' = "dropped"
    /\ UNCHANGED <<senders, sent, queue, received, recvLast, recvOp, sendLast>>
    /\ ChanFrame

\* channel(): thread::spawn comes before recv, so the closure's steps and the
\* main thread's interleave from the start
ChannelNext ==
    \/ ChannelSend
    \/ ChannelTxDrop
    \/ ChannelRecv
    \/ ChannelReturn

ChanNext ==
    \/ \E h \in SenderIds : SenderClone(h)
    \/ \E h \in SenderIds : Send(h)
    \/ \E h \in SenderIds : SenderDrop(h)
    \/ Recv
    \/ RxDrop

\* every use the handles allow: the Receiver may also poll with try_recv and may
\* go away while Senders are alive
ChanAnyNext ==
    \/ \E h \in SenderIds : SenderClone(h)
    \/ \E h \in SenderIds : Send(h)
    \/ \E h \in SenderIds : SenderDrop(h)
    \/ Recv
    \/ TryRecv
    \/ RxDropOpen
    \/ RxDrop

\* ================================================================ Arc<Mutex>
\* chapter-16/src/lib.rs: mutex, multiple_threads_share.

ThreadIds == 1..NumThreads

\* let counter = Arc::new(Mutex::new(0)); let mut handles = vec![];
ShareInit ==
    /\ arcStrong = 1
    /\ arcDestroyed = 0
    /\ locked = FALSE
    /\ guard = {}
    /\ counter = 0
    /\ mainPc = "spawn"
    /\ spawned = 0
    /\ joined = 0
    /\ pc = [t \in ThreadIds |-> "unspawned"]
    /\ tmp = [t \in ThreadIds |-> 0]
    /\ iter = [t \in ThreadIds |-> 0]
    /\ poisoned = FALSE
    /\ panicked = {}
    /\ lockLast = "none"
    /\ waitq = <<>>
    /\ grantPos = 0

\* the drop of an Arc destroys the value when it held the last strong reference
\* (faulty variant: the value goes one handle too early)
ArcLastEarly(prev) == prev <= 2
ArcLast(prev) == prev = 1

\* Arc::clone: the strong count after the clone
ArcCloned(s) == s + 1

\* let counter = Arc::clone(&counter); let handle = thread::spawn(move || ..);
\* handles.push(handle): one iteration of the first loop
Spawn ==
    /\ mainPc = "spawn"
    /\ spawned < NumThreads
    /\ arcStrong' = ArcCloned(arcStrong)
    /\ spawned' = spawned + 1
    /\ pc' = [pc EXCEPT ![spawned + 1] = "lock"]
    /\ mainPc' = IF spawned + 1 = NumThreads THEN "join" ELSE "spawn"
    /\ UNCHANGED <<arcDestroyed, locked, guard, counter, joined, tmp, iter>>
    /\ UNCHANGED <<poisonVars, waitVars>>
    /\ ShareFrame

\* lock returns when it finds the Mutex unlocked; until then the thread waits
\* (faulty variant: lock does not wait)
CanLockAlways(l) == TRUE
CanLock(l) == ~l

\* "a call to lock fails if another thread holding the lock panics": the result
\* of lock on a poisoned Mutex is Err, and the Err still carries the guard
\* (faulty variant: a poisoned Mutex answers Ok)
LockResultOk(p) == "ok"
LockResult(p) == IF p THEN "poisoned" ELSE "ok"

\* a guard dropped while its thread is panicking poisons the Mutex
\* (faulty variant: the flag is left as it was)
PoisonedForgets(p) == p
Poisoned(p) == TRUE

\* the place of thread t in the sequence q, 0 when t is not in it
RECURSIVE Position(_, _)
Position(q, t) ==
    IF q = <<>> THEN 0
    ELSE IF Head(q) = t THEN 1
    ELSE IF Position(Tail(q), t) = 0 THEN 0
    ELSE Position(Tail(q), t) + 1

Remove(q, t) == SelectSeq(q, LAMBDA u : u # t)

\* which of the threads in lock takes the Mutex once it is unlocked: whichever
\* gets there, the threads parked in the order q or one that has just called lock
\* (faulty variant: a parked thread has to be the oldest waiter)
MayAcquireOldest(q, t) == Position(q, t) <= 1
MayAcquire(q, t) == TRUE

\* let mut num = counter.lock() ..: the lock is taken, by a thread that calls lock
\* or by one parked in it; the result is Ok(guard) or, on a poisoned Mutex,
\* Err(guard), on which .unwrap() is still to run
Lock(t) ==
    /\ pc[t] \in {"lock", "parked"}
    /\ CanLock(locked)
    /\ MayAcquire(waitq, t)
    /\ locked' = TRUE
    /\ guard' = guard \cup {t}
    /\ lockLast' = LockResult(poisoned)
    /\ pc' = [pc EXCEPT ![t] = IF LockResult(poisoned) = "ok" THEN "read" ELSE "unwrap"]
    /\ grantPos' = Position(waitq, t)
    /\ waitq' = Remove(waitq, t)
    /\ UNCHANGED <<arcStrong, arcDestroyed, counter, mainPc, spawned, joined, tmp, iter>>
    /\ UNCHANGED <<poisoned, panicked>>
    /\ ShareFrame

\* lock finds the Mutex locked: the thread parks until the Mutex is unlocked
Park(t) ==
    /\ pc[t] = "lock"
    /\ ~CanLock(locked)
    /\ pc' = [pc EXCEPT ![t] = "parked"]
    /\ waitq' = Append(waitq, t)
    /\ UNCHANGED <<arcStrong, arcDestroyed, locked, guard, counter, mainPc, spawned,
                   joined, tmp, iter, grantPos>>
    /\ UNCHANGED poisonVars
    /\ ShareFrame

\* the positions at which a thread holds the MutexGuard
Holding == {"read", "write", "unlock", "unwrap"}

\* the thread panics while it holds the guard: in the closure's body, or in
\* .unwrap() on the Err of a poisoned Mutex. Unwinding drops the guard, which
\* releases the lock and poisons the Mutex; the Arc clone is dropped next.
Panic(t) ==
    /\ pc[t] \in Holding
    /\ locked' = FALSE
    /\ guard' = guard \ {t}
    /\ poisoned' = Poisoned(poisoned)
    /\ panicked' = panicked \cup {t}
    /\ pc' = [pc EXCEPT ![t] = "exit"]
    /\ UNCHANGED <<arcStrong, arcDestroyed, counter, mainPc, spawned, joined, tmp, iter,
                   lockLast>>
    /\ UNCHANGED waitVars
    /\ ShareFrame

\* *num += 1, the load
Read(t) ==
    /\ pc[t] = "read"
    /\ tmp' = [tmp EXCEPT ![t] = counter]
    /\ pc' = [pc EXCEPT ![t] = "write"]
    /\ UNCHANGED <<arcStrong, arcDestroyed, locked, guard, counter, mainPc, spawned,
                   joined, iter>>
    /\ UNCHANGED <<poisonVars, waitVars>>
    /\ ShareFrame

\* *num += 1, the store
Write(t) ==
    /\ pc[t] = "write"
    /\ counter' = tmp[t] + 1
    /\ pc' = [pc EXCEPT ![t] = "unlock"]
    /\ UNCHANGED <<arcStrong, arcDestroyed, locked, guard, mainPc, spawned, joined,
                   tmp, iter>>
    /\ UNCHANGED <<poisonVars, waitVars>>
    /\ ShareFrame

\* num goes out of scope: "the lock is released as the MutexGuard .. goes out of scope"
Unlock(t) ==
    /\ pc[t] = "unlock"
    /\ locked' = FALSE
    /\ guard' = guard \ {t}
    /\ iter' = [iter EXCEPT ![t] = @ + 1]
    /\ pc' = [pc EXCEPT ![t] = IF iter[t] + 1 < Increments THEN "lock" ELSE "exit"]
    /\ UNCHANGED <<arcStrong, arcDestroyed, counter, mainPc, spawned, joined, tmp>>
    /\ UNCHANGED <<poisonVars, waitVars>>
    /\ ShareFrame

\* the closure returns: the thread's Arc clone is dropped
ThreadExit(t) ==
    /\ pc[t] = "exit"
    /\ arcStrong' = arcStrong - 1
    /\ arcDestroyed' = IF ArcLast(arcStrong) THEN arcDestroyed + 1 ELSE arcDestroyed
    /\ pc' = [pc EXCEPT ![t] = "done"]
    /\ UNCHANGED <<locked, guard, counter, mainPc, spawned, joined, tmp, iter>>
    /\ UNCHANGED <<poisonVars, waitVars>>
    /\ ShareFrame

\* handle.join().unwrap(): returns once that thread has finished; join on a thread
\* that panicked is Err, .unwrap() panics and the function unwinds
Join ==
    /\ mainPc = "join"
    /\ joined < NumThreads
    /\ pc[joined + 1] = "done"
    /\ joined' = joined + 1
    /\ mainPc' = IF joined + 1 = NumThreads \/ (joined + 1) \in panicked
                  THEN "drop" ELSE "join"
    /\ UNCHANGED <<arcStrong, arcDestroyed, locked, guard, counter, spawned, pc, tmp,
                   iter>>
    /\ UNCHANGED <<poisonVars, waitVars>>
    /\ ShareFrame

\* the function returns: counter, the first Arc, is dropped
MainDrop ==
    /\ mainPc = "drop"
    /\ arcStrong' = arcStrong - 1
    /\ arcDestroyed' = IF ArcLast(arcStrong) THEN arcDestroyed + 1 ELSE arcDestroyed
    /\ mainPc' = "done"
    /\ UNCHANGED <<locked, guard, counter, spawned, joined, pc, tmp, iter>>
    /\ UNCHANGED <<poisonVars, waitVars>>
    /\ ShareFrame

ShareNext ==
    \/ Spawn
    \/ \E t \in ThreadIds : Lock(t)
    \/ \E t \in ThreadIds : Read(t)
    \/ \E t \in ThreadIds : Write(t)
    \/ \E t \in ThreadIds : Unlock(t)
    \/ \E t \in ThreadIds : ThreadExit(t)
    \/ Join
    \/ MainDrop

\* the same program when a thread may panic while it holds the guard
PoisonNext ==
    \/ Spawn
    \/ \E t \in ThreadIds : Lock(t)
    \/ \E t \in ThreadIds : Read(t)
    \/ \E t \in ThreadIds : Write(t)
    \/ \E t \in ThreadIds : Unlock(t)
    \/ \E t \in ThreadIds : Panic(t)
    \/ \E t \in ThreadIds : ThreadExit(t)
    \/ Join
    \/ MainDrop

\* the same program with the threads that wait in lock made visible
WaitNext ==
    \/ Spawn
    \/ \E t \in ThreadIds : Lock(t)
    \/ \E t \in ThreadIds : Park(t)
    \/ \E t \in ThreadIds : Read(t)
    \/ \E t \in ThreadIds : Write(t)
    \/ \E t \in ThreadIds : Unlock(t)
    \/ \E t \in ThreadIds : ThreadExit(t)
    \/ Join
    \/ MainDrop

\* =================================================================== Counter
\* chapter-13/src/lib.rs: struct Counter { count: u32 } and its Iterator impl.

\* using_other_iterator_trait_methods: Counter::new().zip(Counter::new().skip(1))
NumCounters == 2
CounterIds == 1..NumCounters

\* count: u32, kept as two 16-bit halves [hi, lo], the value being hi * Half + lo
Half == 65536
U32Of(hi, lo) == [hi |-> hi, lo |-> lo]
Zero == U32Of(0, 0)
U32Max == U32Of(Half - 1, Half - 1)

\* x + 1 without a width, for the number of calls
Succ(x) == IF x.lo + 1 < Half THEN U32Of(x.hi, x.lo + 1) ELSE U32Of(x.hi + 1, 0)

\* x + 1 in a u32 when the addition wraps
WrappingSucc(x) == IF x = U32Max THEN Zero ELSE Succ(x)

\* Option<u32>
Some(x) == [tag |-> "some", v |-> x]
None == [tag |-> "none", v |-> Zero]
NotCalled == [tag |-> "not called", v |-> Zero]

\* Counter::new(): Counter { count: 0 }
CntInit ==
    /\ count = [c \in CounterIds |-> Zero]
    /\ calls = count
    /\ made = [c \in CounterIds |-> 0]
    /\ nextLast = [c \in CounterIds |-> NotCalled]
    /\ overflowed = [c \in CounterIds |-> "no"]

\* the Counters a run can meet: as Counter::new() made them, or with next run
\* u32::MAX - 2 times since, None returned the last time
CntInitAny ==
    /\ count \in [CounterIds -> {Zero, U32Of(Half - 1, Half - 3)}]
    /\ calls = count
    /\ made = [c \in CounterIds |-> 0]
    /\ nextLast = [c \in CounterIds |-> IF count[c] = Zero THEN NotCalled ELSE None]
    /\ overflowed = [c \in CounterIds |-> "no"]

\* if self.count < 6
\* (faulty variant: the bound is taken inclusive)
InRangeInclusive(x) == x.hi = 0 /\ x.lo <= 6
InRange(x) == x.hi = 0 /\ x.lo < 6

\* Counter::next: self.count += 1; if self.count < 6 { Some(self.count) } else
\* { None }. At u32::MAX the addition panics (overflow checks on) or wraps.
CounterNext(c) ==
    /\ made[c] < MaxCalls
    /\ overflowed[c] # "panic"
    /\ made' = [made EXCEPT ![c] = @ + 1]
    /\ calls' = [calls EXCEPT ![c] = Succ(@)]
    /\ IF count[c] # U32Max
       THEN /\ count' = [count EXCEPT ![c] = Succ(@)]
            /\ nextLast' = [nextLast EXCEPT ![c] =
                                IF InRange(Succ(count[c])) THEN Some(Succ(count[c])) ELSE None]
            /\ UNCHANGED overflowed
       ELSE \/ /\ overflowed' = [overflowed EXCEPT ![c] = "panic"]
               /\ UNCHANGED <<count, nextLast>>
            \/ /\ overflowed' = [overflowed EXCEPT ![c] = "wrap"]
               /\ count' = [count EXCEPT ![c] = WrappingSucc(@)]
               /\ nextLast' = [nextLast EXCEPT ![c] =
                                   IF InRange(WrappingSucc(count[c]))
                                   THEN Some(WrappingSucc(count[c])) ELSE None]
    /\ CntFrame

CntNext == \E c \in CounterIds : CounterNext(c)

\* ================================================================== thread()
\* chapter-16/src/lib.rs: thread(), thread::spawn and JoinHandle::join.

\* for i in 1..10 of the spawned thread, for i in 1..5 of the main thread
SpawnedEnd == 10
MainEnd == 5

\* thread() is entered
ThrInit ==
    /\ mainAt = "spawn"
    /\ mainI = 1
    /\ mainHi = 0
    /\ handleAt = "none"
    /\ handleI = 1
    /\ handleHi = 0

\* let handle = thread::spawn(|| { for i in 1..10 { .. } })
ThrSpawn ==
    /\ mainAt = "spawn"
    /\ mainAt' = "print"
    /\ handleAt' = "print"
    /\ UNCHANGED <<mainI, mainHi, handleI, handleHi>>
    /\ ThrFrame

\* println!("hi number {} from the spawned thread!", i)
SpawnedPrint ==
    /\ handleAt = "print"
    /\ handleAt' = "sleep"
    /\ handleHi' = handleHi + 1
    /\ UNCHANGED <<mainAt, mainI, mainHi, handleI>>
    /\ ThrFrame

\* thread::sleep(Duration::from_millis(1)) returns and the for loop steps; the
\* closure returns after the last iteration
SpawnedSleep ==
    /\ handleAt = "sleep"
    /\ handleI' = handleI + 1
    /\ handleAt' = IF handleI + 1 < SpawnedEnd THEN "print" ELSE "done"
    /\ UNCHANGED <<mainAt, mainI, mainHi, handleHi>>
    /\ ThrFrame

\* println!("hi number {} from the main thread!", i)
MainPrint ==
    /\ mainAt = "print"
    /\ mainAt' = "sleep"
    /\ mainHi' = mainHi + 1
    /\ UNCHANGED <<mainI, handleAt, handleI, handleHi>>
    /\ ThrFrame

\* thread::sleep(Duration::from_millis(1)) returns and the for loop steps; after
\* the last iteration the main thread calls handle.join()
MainSleep ==
    /\ mainAt = "sleep"
    /\ mainI' = mainI + 1
    /\ mainAt' = IF mainI + 1 < MainEnd THEN "print" ELSE "join"
    /\ UNCHANGED <<mainHi, handleAt, handleI, handleHi>>
    /\ ThrFrame

\* handle.join() returns once the spawned thread's closure has returned
\* (faulty variant: it returns at once, as if the handle were only dropped)
JoinReturnsAtOnce(at) == TRUE
JoinReturns(at) == at = "done"

\* handle.join().unwrap(), the last statement of thread()
ThrJoin ==
    /\ mainAt = "join"
    /\ JoinReturns(handleAt)
    /\ mainAt' = "returned"
    /\ UNCHANGED <<mainI, mainHi, handleAt, handleI, handleHi>>
    /\ ThrFrame

ThrNext ==
    \/ ThrSpawn
    \/ SpawnedPrint
    \/ SpawnedSleep
    \/ MainPrint
    \/ MainSleep
    \/ ThrJoin

\* ================================================================== CycleList
\* chapter-15/src/lib.rs: enum CycleList { Cons(i32, RefCell<Rc<CycleList>>), Nil }
\* and reference_cycle. The i32 of a Cons plays no part and is not kept.

CellIds == 1..MaxCells

CycInit ==
    /\ nCells = 0
    /\ kind = [n \in CellIds |-> "none"]
    /\ cells = [strong |-> [n \in CellIds |-> 0],
                weak |-> [n \in CellIds |-> 0],
                destroyed |-> [n \in CellIds |-> 0],
                freed |-> [n \in CellIds |-> 0],
                parent |-> [n \in CellIds |-> NoNode],
                children |-> [n \in CellIds |-> <<>>]]
    /\ held = [n \in CellIds |-> 0]

\* Rc::new(Nil), the inner expression of line 239
NewNil ==
    /\ nCells < MaxCells
    /\ LET n == nCells + 1
       IN /\ nCells' = n
          /\ kind' = [kind EXCEPT ![n] = "Nil"]
          /\ cells' = [cells EXCEPT !.strong[n] = 1, !.weak[n] = 1]
          /\ held' = [held EXCEPT ![n] = 1]
    /\ CycFrame

\* Rc::clone(&a), the inner expression of lines 240 and 245
CycClone(n) ==
    /\ n <= nCells
    /\ held[n] > 0
    /\ cells.strong[n] < MaxStrong
    /\ cells' = [cells EXCEPT !.strong[n] = @ + 1]
    /\ held' = [held EXCEPT ![n] = @ + 1]
    /\ UNCHANGED <<nCells, kind>>
    /\ CycFrame

\* Rc::new(Cons(5, RefCell::new(t))): the handle t moves into the new value
NewCons(t) ==
    /\ nCells < MaxCells
    /\ t <= nCells
    /\ held[t] > 0
    /\ LET n == nCells + 1
       IN /\ nCells' = n
          /\ kind' = [kind EXCEPT ![n] = "Cons"]
          /\ cells' = [cells EXCEPT !.strong[n] = 1, !.weak[n] = 1,
                                    !.children[n] = <<t>>]
          /\ held' = [held EXCEPT ![n] = 1, ![t] = @ - 1]
    /\ CycFrame

\* CycleList::tail: Some(tail) for a Cons, None for Nil
tail(n) == IF kind[n] = "Cons" THEN cells.children[n] ELSE <<>>

\* if let Some(link) = a.tail() { *link.borrow_mut() = t; }: the handle t moves
\* into a's tail and the Rc that was there is dropped; for Nil the body is not
\* entered
SetTail(a, t) ==
    /\ a <= nCells /\ t <= nCells
    /\ held[a] > (IF a = t THEN 1 ELSE 0)
    /\ held[t] > 0
    /\ tail(a) # <<>>
    /\ held' = [held EXCEPT ![t] = @ - 1]
    /\ cells' = DropRc([cells EXCEPT !.children[a] = <<t>>], Head(tail(a)))
    /\ UNCHANGED <<nCells, kind>>
    /\ CycFrame

\* a local or a temporary handle goes out of scope
CycDrop(n) ==
    /\ n <= nCells
    /\ held[n] > 0
    /\ held' = [held EXCEPT ![n] = @ - 1]
    /\ cells' = DropRc(cells, n)
    /\ UNCHANGED <<nCells, kind>>
    /\ CycFrame

CycNext ==
    \/ NewNil
    \/ \E n \in CellIds : CycClone(n)
    \/ \E t \in CellIds : NewCons(t)
    \/ \E a \in CellIds, t \in CellIds : SetTail(a, t)
    \/ \E n \in CellIds : CycDrop(n)

\* ==================================================================== Cacher
\* chapter-13/src/lib.rs: struct Cacher<T: Fn(u32) -> u32> and generate_workout_4.

\* the u32 arguments value is called with
Args == {U32Of(0, k) : k \in 0..MaxArg}

\* Cacher::new(calculation): Cacher { calculation, value: None }
CacherNew ==
    /\ cached = None
    /\ invoked = 0
    /\ valueCalls = 0
    /\ firstArg = Zero
    /\ lastArg = Zero
    /\ lastValue = NotCalled

\* the closure of generate_workout_4: |num| { println!(..); thread::sleep(..); num }
calculation(num) == num

\* match self.value { Some(v) => .., None => .. }: which arm is taken
\* (faulty variant: the None arm whenever the argument is not the last one's)
IsCachedFor(v, arg, last) == v.tag = "some" /\ arg = last
IsCached(v, arg, last) == v.tag = "some"

\* Cacher::value(arg): the cached v for Some(v); for None the calculation runs on
\* arg and its result is stored and returned
CacherValue(arg) ==
    /\ valueCalls < MaxCalls
    /\ valueCalls' = valueCalls + 1
    /\ firstArg' = IF valueCalls = 0 THEN arg ELSE firstArg
    /\ lastArg' = arg
    /\ IF IsCached(cached, arg, lastArg)
       THEN /\ lastValue' = Some(cached.v)
            /\ UNCHANGED <<cached, invoked>>
       ELSE /\ invoked' = invoked + 1
            /\ cached' = Some(calculation(arg))
            /\ lastValue' = Some(calculation(arg))
    /\ CacherFrame

CacherNext == \E arg \in Args : CacherValue(arg)

\* ==================================================================== search
\* chapter-12/src/lib.rs: search and search_case_insensitive.

\* the characters of the strings: a letter in both cases, another letter, and
\* the line terminator
Chars == {"d", "D", "u", "\n"}

\* the strings of at most n characters
Strings(n) == UNION {[1..k -> Chars] : k \in 0..n}

\* before any input is given
SearchInit ==
    /\ query = <<>>
    /\ contents = <<>>
    /\ results = <<>>
    /\ searched = FALSE

\* search is called with any query and any contents
SearchInitAny ==
    /\ query \in Strings(MaxQuery)
    /\ contents \in Strings(MaxLen)
    /\ results = <<>>
    /\ searched = FALSE

\* where the first line of s ends: at its first "\n", or behind its last character
LineEnd(s) ==
    IF \E i \in 1..Len(s) : s[i] = "\n"
    THEN CHOOSE i \in 1..Len(s) : s[i] = "\n" /\ \A j \in 1..(i - 1) : s[j] # "\n"
    ELSE Len(s) + 1

RECURSIVE lines(_)
\* contents.lines(): the pieces between the newlines, without them; a newline
\* at the very end starts no further line
lines(s) ==
    IF s = <<>>
    THEN <<>>
    ELSE <<SubSeq(s, 1, LineEnd(s) - 1)>> \o lines(SubSeq(s, LineEnd(s) + 1, Len(s)))

\* line.contains(query): query is a substring of line
contains(line, q) ==
    \E i \in 0..(Len(line) - Len(q)) : SubSeq(line, i + 1, i + Len(q)) = q

\* str::to_lowercase on the characters at hand
to_lowercase(s) == [i \in 1..Len(s) |-> IF s[i] = "D" THEN "d" ELSE s[i]]

\* if line.contains(query)
\* (faulty variant: the test of search_case_insensitive)
MatchesLowercase(line, q) == contains(to_lowercase(line), to_lowercase(q))
Matches(line, q) == contains(line, q)

RECURSIVE Pushed(_, _)
\* for line in ls { if line.contains(query) { results.push(line); } }
Pushed(ls, q) ==
    IF ls = <<>>
    THEN <<>>
    ELSE (IF Matches(Head(ls), q) THEN <<Head(ls)>> ELSE <<>>) \o Pushed(Tail(ls), q)

\* search(query, contents)
search(q, c) == Pushed(lines(c), q)

\* let results = search(query, contents)
Search ==
    /\ ~searched
    /\ results' = search(query, contents)
    /\ searched' = TRUE
    /\ UNCHANGED <<query, contents>>
    /\ SearchFrame

\* ==================================================== multiple_threads_share
\* chapter-16/src/lib.rs: multiple_threads_share with its nine threads. The Arc
\* handles, which every thread has from its spawn to its end, are not kept here.

\* for _ in 1..10
MtsEnd == 10
MtsThreads == 1..(MtsEnd - 1)

\* let counter = Arc::new(Mutex::new(0)); let mut handles = vec![]
MtsInit ==
    /\ mtsMain = "spawn"
    /\ mtsHandles = 0
    /\ mtsJoined = 0
    /\ mtsPc = [t \in MtsThreads |-> "none"]
    /\ mtsLocked = FALSE
    /\ mtsNum = 0

\* one iteration of for _ in 1..10: Arc::clone, thread::spawn, handles.push
MtsSpawn ==
    /\ mtsMain = "spawn"
    /\ mtsHandles' = mtsHandles + 1
    /\ mtsPc' = [mtsPc EXCEPT ![mtsHandles + 1] = "lock"]
    /\ mtsMain' = IF mtsHandles + 2 < MtsEnd THEN "spawn" ELSE "join"
    /\ UNCHANGED <<mtsJoined, mtsLocked, mtsNum>>
    /\ MtsFrame

\* let mut num = counter.lock().unwrap(): returns once the Mutex is unlocked
MtsLock(t) ==
    /\ mtsPc[t] = "lock"
    /\ CanLock(mtsLocked)
    /\ mtsLocked' = TRUE
    /\ mtsPc' = [mtsPc EXCEPT ![t] = "add"]
    /\ UNCHANGED <<mtsMain, mtsHandles, mtsJoined, mtsNum>>
    /\ MtsFrame

\* *num += 1
MtsAdd(t) ==
    /\ mtsPc[t] = "add"
    /\ mtsNum' = mtsNum + 1
    /\ mtsPc' = [mtsPc EXCEPT ![t] = "end"]
    /\ UNCHANGED <<mtsMain, mtsHandles, mtsJoined, mtsLocked>>
    /\ MtsFrame

\* (faulty variant: the closure ends without its guard being dropped, as after
\* mem::forget(num))
MtsEndLeaks(t) ==
    /\ mtsPc[t] = "end"
    /\ mtsPc' = [mtsPc EXCEPT ![t] = "done"]
    /\ UNCHANGED <<mtsMain, mtsHandles, mtsJoined, mtsLocked, mtsNum>>
    /\ MtsFrame

\* the closure returns: num, the MutexGuard, is dropped and the Mutex unlocked
MtsEndOfClosure(t) ==
    /\ mtsPc[t] = "end"
    /\ mtsLocked' = FALSE
    /\ mtsPc' = [mtsPc EXCEPT ![t] = "done"]
    /\ UNCHANGED <<mtsMain, mtsHandles, mtsJoined, mtsNum>>
    /\ MtsFrame

\* one iteration of for handle in handles: handle.join().unwrap() returns once
\* that thread has ended
MtsJoin ==
    /\ mtsMain = "join"
    /\ mtsPc[mtsJoined + 1] = "done"
    /\ mtsJoined' = mtsJoined + 1
    /\ mtsMain' = IF mtsJoined + 2 < MtsEnd THEN "join" ELSE "returned"
    /\ UNCHANGED <<mtsHandles, mtsPc, mtsLocked, mtsNum>>
    /\ MtsFrame

MtsNext ==
    \/ MtsSpawn
    \/ \E t \in MtsThreads : MtsLock(t)
    \/ \E t \in MtsThreads : MtsAdd(t)
    \/ \E t \in MtsThreads : MtsEndOfClosure(t)
    \/ MtsJoin

\* ============================================================ specifications
Init == RcInit /\ CellInit /\ ChanInit /\ ShareInit /\ CntInit /\ ThrInit /\ CycInit /\ CacherNew /\ SearchInit /\ MtsInit
SpecRc == Init /\ [][RcNext]_vars
SpecCell == Init /\ [][CellNext]_vars
SpecChan == Init /\ [][ChanNext]_vars
SpecChanAny == Init /\ [][ChanAnyNext]_vars

\* the threads are scheduled: a spawned thread that can send or return does so,
\* and so does the main thread at recv or at the end of the function (the
\* sleeps between the sends are finite)
ChanFairness ==
    /\ \A h \in SenderIds : WF_vars(Send(h)) /\ WF_vars(SenderDrop(h))
    /\ WF_vars(Recv)
    /\ WF_vars(RxDrop)
SpecChanFair == Init /\ [][ChanNext]_vars /\ ChanFairness
SpecShare == Init /\ [][ShareNext]_vars
InitCounter == RcInit /\ CellInit /\ ChanInit /\ ShareInit /\ CntInitAny /\ ThrInit /\ CycInit /\ CacherNew /\ SearchInit /\ MtsInit
SpecCounter == InitCounter /\ [][CntNext]_vars
SpecCacher == Init /\ [][CacherNext]_vars
InitSearch ==
    /\ RcInit /\ CellInit /\ ChanInit /\ ShareInit /\ CntInit /\ ThrInit /\ CycInit
    /\ CacherNew /\ SearchInitAny /\ MtsInit
SpecSearch == InitSearch /\ [][Search]_vars
SpecPoison == Init /\ [][PoisonNext]_vars
SpecWait == Init /\ [][WaitNext]_vars
\* the scheduler lets some thread that can run take its next step
MtsFairness == WF_vars(MtsNext)
SpecMts == Init /\ [][MtsNext]_vars /\ MtsFairness

\* a run of any one of the programs: the operations of one family, the other
\* families still as constructed
OneNext ==
    \/ CellInit /\ ChanInit /\ ShareInit /\ RcNext
    \/ RcInit /\ ChanInit /\ ShareInit /\ CellNext
    \/ RcInit /\ CellInit /\ ShareInit /\ ChanAnyNext
    \/ RcInit /\ CellInit /\ ChanInit /\ ShareNext
SpecOne == Init /\ [][OneNext]_vars
SpecCycle == Init /\ [][CycNext]_vars
SpecThread == Init /\ [][ThrNext]_vars
\* a run of thread() or of channel(): the main thread and one spawned thread
SpawnNext ==
    \/ ChanInit /\ ThrNext
    \/ ThrInit /\ ChannelNext
SpecSpawn == Init /\ [][SpawnNext]_vars

\* ==================================================================== claims

\* the owning handles of n: locals, and the children vectors of live nodes
Holders(n) ==
    locals[n]
    + Cardinality({mi \in Allocated \X (1..MaxNodes) :
                     /\ destroyed[mi[1]] = 0
                     /\ mi[2] \in DOMAIN children[mi[1]]
                     /\ children[mi[1]][mi[2]] = n})

RECURSIVE Descendants(_)
Descendants(r) ==
    LET cs == {children[r][i] : i \in DOMAIN children[r]}
    IN cs \cup UNION {Descendants(c) : c \in cs}

\* C1 (state part): the value of an allocation has been dropped once if its
\* strong count is 0 and not at all otherwise, and never while a handle is alive.
RcDestroyedOnce ==
    \A n \in Allocated :
        /\ destroyed[n] = (IF strong[n] = 0 THEN 1 ELSE 0)
        /\ Holders(n) > 0 => destroyed[n] = 0

\* C1 (step part): a value is dropped only by the drop of a handle that takes
\* its strong count from 1 to 0.
RcDestroyedAtLastDrop ==
    [][\A n \in Nodes :
          destroyed'[n] # destroyed[n] =>
              /\ strong[n] = 1 /\ strong'[n] = 0
              /\ destroyed[n] = 0 /\ destroyed'[n] = 1
              /\ rcLast'.op = "drop"]_vars

\* C1: for every sequence of clone and drop on the handles of one Rc, the value
\* is destroyed exactly once, exactly at the drop that takes strong_count from
\* 1 to 0: never while a handle is alive, never a second time.
C1_DestroyedExactlyOnce == []RcDestroyedOnce /\ RcDestroyedAtLastDrop

\* the last handle of an allocation was dropped, and that drop destroyed its value
C1_Witness ==
    /\ rcLast.op = "drop"
    /\ rcLast.pre = 1
    /\ destroyed[rcLast.node] = 1
    /\ locals[rcLast.node] = 0

\* C2: in every state reached by borrow, borrow_mut and guard releases on one
\* RefCell, an outstanding RefMut never coexists with any other outstanding
\* guard, Ref or RefMut.
C2_ExclusiveAlone ==
    \A g \in GuardIds :
        guards[g] = "write" => \A h \in GuardIds \ {g} : guards[h] = "none"

\* a RefMut is outstanding and a second borrow of the cell was refused
C2_Witness ==
    /\ \E g \in GuardIds : guards[g] = "write"
    /\ cellLast = "panic"

\* C3: Weak::upgrade returns None iff the strong count of its target is 0 at the
\* call (a Weak::new() has no target and counts as 0); otherwise the strong count
\* rises by exactly 1 and the Rc returned is a handle to the same allocation,
\* whose value is the one it was created with.
C3_UpgradeResult ==
    rcLast.op = "upgrade" =>
        LET t == rcLast.node
        IN /\ rcLast.res = NoNode <=> rcLast.pre = 0
           /\ rcLast.res # NoNode =>
                 /\ rcLast.res = t
                 /\ StrongCount(t) = rcLast.pre + 1
                 /\ locals[t] > 0
                 /\ rcLast.val = value[t]
                 /\ Deref(rcLast.res) = value[t]
           /\ rcLast.res = NoNode /\ t # NoNode => StrongCount(t) = 0

\* an upgrade of a Weak whose target has been dropped returned None
C3_Witness ==
    /\ rcLast.op = "upgrade"
    /\ rcLast.node # NoNode
    /\ rcLast.res = NoNode
    /\ destroyed[rcLast.node] = 1

\* C4 (step part): when a node is dropped and nothing but its own tree owns its
\* descendants, the same drop destroys every descendant.
TreeDropCascades ==
    [][\A r \in Allocated :
          (/\ destroyed[r] = 0 /\ destroyed'[r] = 1
           /\ \A d \in Descendants(r) : locals[d] = 0 /\ strong[d] = 1)
          => \A d \in Descendants(r) : destroyed'[d] = 1 /\ freed'[d] <= 1]_vars

\* C4 (state part): no node is destroyed twice, no operation goes through a
\* destroyed node, and once no local handle is left every node is destroyed and
\* its control block released, once.
TreeNoLeakNoReuse ==
    /\ ~uaf
    /\ \A n \in Allocated : destroyed[n] <= 1 /\ freed[n] <= 1
    /\ (\A n \in Allocated : locals[n] = 0) =>
           \A n \in Allocated : destroyed[n] = 1 /\ freed[n] = 1

\* C4: in a tree whose parents own their children (Rc) and whose children only
\* observe their parent (Weak), dropping the last outside handle to the root
\* destroys every node of the subtree exactly once, leaves none undestroyed, and
\* no destroyed node is accessed afterwards.
C4_TreeDestroyedOnce == []TreeNoLeakNoReuse /\ TreeDropCascades

\* one drop destroyed a branch and its leaf, the leaf holding a Weak to the branch
C4_Witness ==
    /\ rcLast.op = "drop"
    /\ rcLast.res = 2
    /\ rcLast.val >= 1
    /\ \A n \in Allocated : destroyed[n] = 1 /\ freed[n] = 1

\* ------------------------------------------------------------ channel claims
ValsOf(ms) == [i \in 1..Len(ms) |-> ms[i].val]
FromSender(ms, h) == SelectSeq(ms, LAMBDA m : m.src = h)
Created == {h \in SenderIds : senders[h] # "none"}
SingleProducer == Created = {1}

RECURSIVE TotalSent(_)
TotalSent(hs) ==
    IF hs = {} THEN 0
    ELSE LET h == CHOOSE x \in hs : TRUE IN sent[h] + TotalSent(hs \ {h})

\* C5: with a single producer, the values recv returns one after the other are
\* the values sent, in send order: none lost, duplicated or reordered, and all of
\* them once the receive loop has ended.
C5_SingleProducerFifo ==
    SingleProducer =>
        /\ ValsOf(received \o queue) = SubSeq(Vals, 1, sent[1])
        /\ rxState # "open" => ValsOf(received) = Vals

\* one producer sent all its vals and the receive loop got them all and ended
C5_Witness ==
    /\ SingleProducer
    /\ rxState = "ended"
    /\ ValsOf(received) = Vals

\* C6 (state part): recv has returned "closed" only on an empty queue with every
\* Sender dropped and every message sent delivered; with every Sender dropped a
\* recv does not block.
ClosedOnlyWhenDrained ==
    /\ recvLast = "closed" =>
          /\ queue = <<>>
          /\ Disconnected(senders)
          /\ Len(received) = TotalSent(SenderIds)
    /\ rxState = "open" /\ Disconnected(senders) => ENABLED Recv

\* C6 (step part): once every Sender is dropped, a recv on a non-empty queue
\* returns its oldest message and a recv on the empty queue returns "closed".
DrainThenClosed ==
    [][rxState = "open" /\ Disconnected(senders) =>
          IF queue = <<>>
          THEN recvLast' = "closed" /\ received' = received
          ELSE /\ recvLast' = "msg"
               /\ received' = Append(received, Head(queue))
               /\ queue' = Tail(queue)]_vars

\* C6: once every producer handle is dropped recv still delivers every message
\* enqueued before the last drop, the first recv on the then empty queue returns
\* "closed" instead of blocking, and recv never returns "closed" while the queue
\* is non-empty.
C6_ClosedAfterDrain == []ClosedOnlyWhenDrained /\ DrainThenClosed

\* both producers sent everything and were dropped; recv delivered it all, then "closed"
C6_Witness ==
    /\ recvLast = "closed"
    /\ Len(received) = NumSenders * Len(Vals)

\* C7: with M producers made by cloning the Sender, each sending its K vals, the
\* messages of any one sender reach the receiver in that sender's send order
\* under every interleaving, and the receiver gets exactly M * K messages.
C7_PerSenderFifo ==
    /\ \A h \in SenderIds :
          ValsOf(FromSender(received \o queue, h)) = SubSeq(Vals, 1, sent[h])
    /\ rxState # "open" =>
          /\ Len(received) = Cardinality(Created) * Len(Vals)
          /\ \A h \in Created : ValsOf(FromSender(received, h)) = Vals

\* two producers, their messages interleaved, all eight received
C7_Witness ==
    /\ rxState = "ended"
    /\ Cardinality(Created) = 2
    /\ Len(received) = 2 * Len(Vals)
    /\ received[1].src # received[2].src

\* ---------------------------------------------------------- Arc<Mutex> claims

\* C8: with N threads each making its increments as a load and a store under
\* the MutexGuard, the counter after every join is N times the increments of one
\* thread, under every interleaving: no update is lost.
C8_NoLostUpdate ==
    joined = NumThreads => counter = NumThreads * Increments

\* every thread was joined and the counter holds every increment
C8_Witness ==
    /\ mainPc = "done"
    /\ \A t \in ThreadIds : iter[t] = Increments
    /\ counter = NumThreads * Increments

\* C9 (state part): at most one thread holds a MutexGuard, the Mutex is locked
\* exactly while one is held, and a thread is at a load or store of the value
\* only while it holds the guard.
MutexExclusive ==
    /\ Cardinality(guard) <= 1
    /\ locked <=> guard # {}
    /\ \A t \in ThreadIds : pc[t] \in {"read", "write", "unlock"} => t \in guard

\* C9 (step part): a thread gets a guard only by a step that takes locked from
\* FALSE to TRUE.
LockAcquires ==
    [][\A t \in ThreadIds : t \notin guard /\ t \in guard' => ~locked /\ locked']_vars

\* C9: at every reachable state at most one thread holds a guard of the Mutex,
\* lock returns only by taking locked from false to true, and the value is read
\* or written only by the thread holding the guard.
C9_MutualExclusion == []MutexExclusive /\ LockAcquires

\* one thread is between its load and its store while another waits in lock
C9_Witness ==
    \E t \in ThreadIds, u \in ThreadIds :
        /\ guard = {t}
        /\ pc[t] = "write"
        /\ pc[u] = "lock"

\* the Arc handles alive: counter in main, and the clone each running thread owns
ArcHandles ==
    (IF mainPc = "done" THEN 0 ELSE 1)
    + Cardinality({t \in ThreadIds : pc[t] \notin {"unspawned", "done"}})

\* C10 (state part): the strong count is the number of live handles, and the
\* value has been dropped once if that is 0 and not at all otherwise.
ArcCountsHandles ==
    /\ arcStrong = ArcHandles
    /\ arcDestroyed = (IF arcStrong = 0 THEN 1 ELSE 0)

\* C10 (step part): the value is dropped only by the drop that takes the strong
\* count from 1 to 0.
ArcDestroyedAtLastDrop ==
    [][arcDestroyed' # arcDestroyed =>
          arcStrong = 1 /\ arcStrong' = 0 /\ arcDestroyed' = 1]_vars

\* C10: under every interleaving of the main thread's Arc::clone calls with the
\* spawned threads' drops, the strong count equals the number of live handles
\* and the shared value is destroyed exactly once, at the drop of the last handle.
C10_ArcExactlyOnce == []ArcCountsHandles /\ ArcDestroyedAtLastDrop

\* every handle is gone and the Mutex was dropped by the last of them
C10_Witness ==
    /\ arcStrong = 0
    /\ arcDestroyed = 1
    /\ \A t \in ThreadIds : pc[t] = "done"

\* C11 (state part): the Mutex is poisoned exactly when some thread panicked
\* while it held the guard, so a Mutex whose holders all released normally is
\* never reported poisoned; a thread that was handed the "poisoned" result
\* holds the guard that the result wraps.
PoisonedIffPanicked ==
    /\ poisoned <=> panicked # {}
    /\ lockLast = "poisoned" => panicked # {}
    /\ \A t \in ThreadIds : pc[t] = "unwrap" => t \in guard /\ lockLast = "poisoned"

\* C11 (step part): the panic of a guard's holder releases the lock, and every
\* lock granted after a panic returns "poisoned", every other one "ok".
PanicReleasesAndPoisons ==
    [][/\ \A t \in ThreadIds :
            t \in guard /\ t \in panicked' \ panicked => ~locked' /\ t \notin guard'
       /\ \A t \in ThreadIds :
            t \notin guard /\ t \in guard' =>
                lockLast' = (IF panicked # {} THEN "poisoned" ELSE "ok")]_vars

\* C11: when a thread panics while it holds a MutexGuard the lock is released
\* and every later lock on that Mutex returns "poisoned", still wrapping the
\* guard; a Mutex whose holders all released normally is never poisoned.
C11_PoisonAfterPanic == []PoisonedIffPanicked /\ PanicReleasesAndPoisons

\* after the panic of one thread another thread took the released lock and was
\* handed the guard inside the "poisoned" result
C11_Witness ==
    \E t \in ThreadIds, u \in ThreadIds :
        /\ t \in panicked
        /\ u \notin panicked
        /\ pc[u] = "unwrap"
        /\ guard = {u}
        /\ lockLast = "poisoned"

\* C12 (state part): a message in the queue of a live Receiver keeps recv from
\* blocking, so the send that put it there woke the consumer.
QueuedWakesRecv == rxState = "open" /\ queue # <<>> => ENABLED Recv

\* C12 (step part): a send that succeeds found the Receiver alive and appended
\* its value at the tail; a send that fails found the Receiver dropped, returned
\* "closed" and left the queue alone.
SendOutcome ==
    [][/\ \A h \in SenderIds :
            sent'[h] = sent[h] + 1 =>
                /\ rxState # "dropped"
                /\ sendLast' = "ok"
                /\ queue' = Append(queue, Msg(h, sent[h] + 1))
       /\ \A h \in SenderIds :
            senders[h] = "live" /\ senders'[h] = "dropped" /\ sent[h] < Len(Vals) =>
                /\ rxState = "dropped"
                /\ sendLast' = "closed"
                /\ queue' = queue
                /\ sent' = sent]_vars

\* C12: send returns "closed" and enqueues nothing whenever the Receiver has been
\* dropped; whenever the Receiver is alive send succeeds, appends the value at
\* the tail of the queue and wakes a consumer blocked in recv.
C12_SendClosedOrAppends == []QueuedWakesRecv /\ SendOutcome

\* a send failed on the dropped Receiver after earlier sends had succeeded
C12_Witness ==
    /\ rxState = "dropped"
    /\ sendLast = "closed"
    /\ \E h \in SenderIds : senders[h] = "dropped" /\ sent[h] > 0 /\ sent[h] < Len(Vals)

\* the Ref guards and the RefMut guards outstanding
ReadGuards == {g \in GuardIds : guards[g] = "read"}
WriteGuards == {g \in GuardIds : guards[g] = "write"}

\* C13 (state part): the cell is in state Exclusive exactly while a RefMut is
\* outstanding.
ExclusiveIffRefMut == borrowFlag = Exclusive <=> WriteGuards # {}

\* C13 (step part): borrow_mut on an unborrowed cell succeeds and makes it
\* Exclusive; in every other state it fails and changes nothing; the release
\* of the RefMut makes the cell Unborrowed.
BorrowMutOutcome ==
    [][/\ cellOp' = "borrow_mut" =>
            IF borrowFlag = Unborrowed
            THEN /\ cellLast' = "ok"
                 /\ borrowFlag' = Exclusive
                 /\ Cardinality(WriteGuards') = 1
            ELSE /\ cellLast' = "panic"
                 /\ UNCHANGED <<borrowFlag, guards, name>>
       /\ \A g \in GuardIds :
            guards[g] = "write" /\ guards'[g] = "none" => borrowFlag' = Unborrowed]_vars

\* C13: borrow_mut succeeds only when the state is Unborrowed and then sets it
\* to Exclusive; it fails in state Shared(n) for every n >= 1 and in state
\* Exclusive; releasing the write guard sets the state back to Unborrowed.
C13_BorrowMutOnlyUnborrowed == []ExclusiveIffRefMut /\ BorrowMutOutcome

\* borrow_mut has just failed on a cell shared by two Refs
C13_Witness ==
    /\ cellOp = "borrow_mut"
    /\ cellLast = "panic"
    /\ borrowFlag = 2
    /\ Cardinality(ReadGuards) = 2

\* C14 (state part): the shared count is the number of outstanding Refs.
SharedCount == IF borrowFlag > 0 THEN borrowFlag ELSE 0

SharedCountsRefs == SharedCount = Cardinality(ReadGuards)

\* C14 (step part): borrow fails exactly in state Exclusive, and changes nothing
\* then; otherwise it succeeds and the count rises by one; each release of a Ref
\* takes one off the count.
BorrowOutcome ==
    [][/\ cellOp' = "borrow" =>
            IF borrowFlag = Exclusive
            THEN /\ cellLast' = "panic"
                 /\ UNCHANGED <<borrowFlag, guards, name>>
            ELSE /\ cellLast' = "ok"
                 /\ borrowFlag' = borrowFlag + 1
                 /\ Cardinality(ReadGuards') = Cardinality(ReadGuards) + 1
       /\ \A g \in GuardIds :
            guards[g] = "read" /\ guards'[g] = "none" => borrowFlag' = borrowFlag - 1]_vars

\* C14: borrow fails exactly when the state is Exclusive; otherwise it succeeds
\* and moves Unborrowed to Shared(1) or Shared(n) to Shared(n+1); each release
\* of a read guard decrements the count and the last one returns the state to
\* Unborrowed, so the shared count always equals the number of outstanding
\* read guards.
C14_SharedCountIsRefs == []SharedCountsRefs /\ BorrowOutcome

\* a borrow has just succeeded on a cell that was Shared(1): two Refs are
\* outstanding and the state is Shared(2)
C14_Witness ==
    /\ cellOp = "borrow"
    /\ cellLast = "ok"
    /\ borrowFlag = 2
    /\ Cardinality(ReadGuards) = 2

\* C15 (state part): the strong count of an allocation is the number of its
\* live owning handles, those in locals and those in the children of live Nodes.
StrongCountsHolders == \A n \in Allocated : StrongCount(n) = Holders(n)

\* C15 (step part): the count is 1 right after new; a clone returns a handle to
\* the same allocation, adds exactly 1 to its count and allocates nothing; the
\* drop of a handle takes exactly 1 off.
StrongCountSteps ==
    [][/\ nNodes' # nNodes => nNodes' = nNodes + 1 /\ strong'[nNodes'] = 1
       /\ rcLast'.op = "clone" =>
            /\ rcLast'.res = rcLast'.node
            /\ rcLast'.val = value[rcLast'.node]
            /\ nNodes' = nNodes
            /\ value' = value
            /\ strong' = [strong EXCEPT ![rcLast'.node] = @ + 1]
       /\ rcLast'.op = "drop" =>
            strong'[rcLast'.node] = strong[rcLast'.node] - 1]_vars

ValueGoesBlockStays ==
    \A n \in Allocated :
        /\ destroyed[n] = (IF StrongCount(n) = 0 THEN 1 ELSE 0)
        /\ freed[n] = (IF StrongCount(n) = 0 /\ WeakCount(n) = 0 THEN 1 ELSE 0)

\* C16 (step part): an upgrade through a Weak whose target's value is gone
\* returns None, and finds the control block still there.
UpgradeOfDroppedIsNone ==
    [][rcLast'.op = "upgrade" /\ rcLast'.node # NoNode /\ destroyed[rcLast'.node] = 1 =>
          /\ rcLast'.res = NoNode
          /\ freed[rcLast'.node] = 0
          /\ UNCHANGED <<strong, locals, destroyed>>]_vars

\* C16: outstanding weak handles do not keep the value alive: it is destroyed
\* as soon as strong_count reaches 0 even when weak_count > 0, the control block
\* is destroyed only once both counts are 0, and every upgrade between those
\* two moments returns None.
C16_WeakKeepsBlockOnly == []ValueGoesBlockStays /\ UpgradeOfDroppedIsNone

\* the value of a Node is gone, a child's parent Weak still points at its
\* control block, and the upgrade of that Weak has just returned None
C16_Witness ==
    /\ rcLast.op = "upgrade"
    /\ rcLast.node # NoNode
    /\ rcLast.res = NoNode
    /\ destroyed[rcLast.node] = 1
    /\ freed[rcLast.node] = 0
    /\ WeakCount(rcLast.node) > 0

\* the threads parked in lock
Parked == {t \in ThreadIds : pc[t] = "parked"}

\* C17 as stated: the Mutex is granted to the threads blocked in lock in the
\* order in which they started waiting, so a grant to a parked thread is always
\* a grant to the oldest waiter. (The Receiver of a channel is one handle: no two
\* threads wait in recv on one channel.)
C17_ArrivalOrder == grantPos <= 1

\* C17 amended (state part): the wait queue holds the parked threads, each
\* once; none of them holds the guard; and once the Mutex is unlocked every one
\* of them, not only the oldest, may be the next to take it.
AnyWaiterMayAcquire ==
    /\ {waitq[i] : i \in DOMAIN waitq} = Parked
    /\ Len(waitq) = Cardinality(Parked)
    /\ Parked \cap guard = {}
    /\ ~locked => \A t \in Parked : ENABLED Lock(t)

\* C17 amended (step part): a grant goes to one thread, takes locked from FALSE
\* to TRUE, and leaves the other waiters parked in their order.
GrantKeepsOthersWaiting ==
    [][\A t \in ThreadIds :
          t \notin guard /\ t \in guard' =>
              /\ ~locked /\ locked'
              /\ guard' = {t}
              /\ waitq' = Remove(waitq, t)
              /\ grantPos' = Position(waitq, t)]_vars

\* C17 amended: the threads blocked in lock on one Mutex are granted it one at
\* a time, each by a step that takes locked from false to true, in no fixed
\* order: whenever the Mutex is unlocked any of the waiting threads may be the
\* next holder, whatever the order in which they started waiting.
C17_AnyWaiterNext == []AnyWaiterMayAcquire /\ GrantKeepsOthersWaiting

\* the Mutex was granted to the second thread in the wait queue while the
\* thread that had started waiting before it is still parked
C17_Witness ==
    /\ grantPos = 2
    /\ waitq # <<>>
    /\ \E t \in ThreadIds : guard = {t}

\* C18, the channel: send, Sender::clone, the drop of a Sender and try_recv are
\* enabled whenever their caller is at them, whatever the queue holds and
\* whatever the Receiver does; recv is enabled only with a message queued or
\* every Sender gone.
ChanOnlyRecvBlocks ==
    /\ \A h \in SenderIds :
          senders[h] = "live" =>
              /\ sent[h] < Len(Vals) => ENABLED Send(h)
              /\ sent[h] = Len(Vals) => ENABLED SenderDrop(h)
              /\ (\E c \in SenderIds : senders[c] = "none") => ENABLED SenderClone(h)
    /\ rxState = "open" =>
          /\ ENABLED TryRecv
          /\ ENABLED Recv <=> (queue # <<>> \/ Disconnected(senders))

\* C18, the Mutex: a thread at its load, its store, the release of its guard or
\* its exit is enabled whatever the other threads do, and so is the main thread
\* at a spawn; a thread in lock can take the Mutex only when it is unlocked.
MutexOnlyLockBlocks ==
    /\ \A t \in ThreadIds :
          /\ pc[t] = "read" => ENABLED Read(t)
          /\ pc[t] = "write" => ENABLED Write(t)
          /\ pc[t] = "unlock" => ENABLED Unlock(t)
          /\ pc[t] = "exit" => ENABLED ThreadExit(t)
          /\ pc[t] = "lock" => (ENABLED Lock(t) <=> ~locked)
    /\ mainPc = "spawn" => ENABLED Spawn
    /\ mainPc = "drop" => ENABLED MainDrop

\* C18, Rc, Weak and RefCell: every operation on a handle or a guard slot is
\* enabled, the borrows included, which answer "panic" rather than wait.
CellsNeverBlock ==
    /\ \A g \in GuardIds :
          /\ guards[g] = "none" => ENABLED BorrowMut(g) /\ ENABLED Borrow(g)
          /\ guards[g] # "none" => ENABLED Release(g)
    /\ \A n \in Allocated :
          locals[n] > 0 =>
              /\ ENABLED RcDrop(n)
              /\ strong[n] < MaxStrong => ENABLED RcClone(n)
              /\ (parent[n] = NoNode \/ strong[parent[n]] < MaxStrong) => ENABLED Upgrade(n)
              /\ \A p \in Allocated : locals[p] > 0 => ENABLED SetParent(n, p)

\* C18: lock and recv are the only operations that can block: send,
\* Sender::clone, try_recv, guard release and every Rc, Weak and RefCell
\* operation complete in one step without waiting for any other thread,
\* whatever the queue length or lock state; a blocked lock or recv suspends
\* only its calling thread.
C18_OnlyLockAndRecvBlock ==
    ChanOnlyRecvBlocks /\ MutexOnlyLockBlocks /\ CellsNeverBlock

\* recv would block on the empty queue, try_recv has just answered "empty", and
\* a Sender with three messages out already can send the next at once
C18_Witness ==
    /\ rxState = "open"
    /\ ~ENABLED Recv
    /\ recvOp = "try_recv"
    /\ recvLast = "empty"
    /\ Len(received) = 3
    /\ \E h \in SenderIds : sent[h] = 3 /\ ENABLED Send(h)

\* C19 (state part): try_recv is enabled whenever the Receiver is at it.
TryRecvNeverBlocks == rxState = "open" => ENABLED TryRecv

\* C19 (step part): a try_recv returns the head of a non-empty queue and takes
\* it off; on an empty queue it returns "empty" if a Sender is alive and
\* "closed" if none is, and takes nothing.
TryRecvOutcome ==
    [][recvOp' = "try_recv" /\ <<recvOp, recvLast, received>>' # <<recvOp, recvLast, received>> =>
          IF queue # <<>>
          THEN /\ recvLast' = "msg"
               /\ received' = Append(received, Head(queue))
               /\ queue' = Tail(queue)
          ELSE /\ recvLast' = (IF \E h \in SenderIds : senders[h] = "live"
                               THEN "empty" ELSE "closed")
               /\ UNCHANGED <<queue, received>>]_vars

\* C19: try_recv never blocks: it returns the head message when the queue is
\* non-empty, "empty" when the queue is empty and at least one producer handle
\* is alive, and "closed" when the queue is empty and no producer is left.
C19_TryRecvAnswers == []TryRecvNeverBlocks /\ TryRecvOutcome

\* try_recv has just answered "closed": every message was taken before and the
\* last Sender is gone
C19_Witness ==
    /\ recvOp = "try_recv"
    /\ recvLast = "closed"
    /\ rxState = "open"
    /\ queue = <<>>
    /\ received # <<>>
    /\ \A h \in SenderIds : senders[h] # "live"

\* C20: starting from Counter::new(), the k-th call of next returns Some(k) for
\* k = 1..5 and None for the 6th call and every later one, as long as the u32
\* count has not overflowed.
C20_CounterYields ==
    \A c \in CounterIds :
        overflowed[c] = "no" /\ calls[c] # Zero =>
            nextLast[c] = (IF calls[c].hi = 0 /\ calls[c].lo <= 5
                           THEN Some(calls[c]) ELSE None)

\* one Counter has just returned Some(5) from its 5th call, the other None from
\* its 7th
C20_Witness ==
    \E c \in CounterIds, d \in CounterIds :
        /\ calls[c] = U32Of(0, 5) /\ nextLast[c] = Some(U32Of(0, 5))
        /\ calls[d] = U32Of(0, 7) /\ nextLast[d] = None

\* C27: a borrow or borrow_mut that fails changes nothing: the borrow state, the
\* String and the guards outstanding are what they were before the call. In
\* will_panic the second borrow_mut fails while the first RefMut is held and
\* before any push, so the name is still "Pedro".
C27_FailedBorrowChangesNothing ==
    [][cellLast' = "panic" /\ cellOp' \in {"borrow", "borrow_mut", "append"} =>
          UNCHANGED <<borrowFlag, guards, name>>]_vars

\* will_panic: one RefMut is held, the second borrow_mut has just failed, and
\* the name is "Pedro"
C27_Witness ==
    /\ cellOp = "borrow_mut"
    /\ cellLast = "panic"
    /\ borrowFlag = Exclusive
    /\ Cardinality(WriteGuards) = 1
    /\ ReadGuards = {}
    /\ name = Pedro

\* C28 (state part): on an empty queue with a Sender alive recv is not enabled;
\* and every message recv or try_recv returned is one that a send enqueued,
\* returned once.
RecvBlockedWhileEmpty ==
    /\ rxState = "open" /\ queue = <<>> /\ (\E h \in SenderIds : senders[h] = "live")
          => ~ENABLED Recv
    /\ \A i \in DOMAIN received :
          /\ received[i].src \in SenderIds
          /\ \E k \in 1..sent[received[i].src] : received[i] = Msg(received[i].src, k)
    /\ Cardinality({received[i] : i \in DOMAIN received}) = Len(received)

\* C28 (step part): a recv that returns a message takes the head of the queue,
\* and a recv that returns "closed" found the queue empty and no Sender alive.
RecvReturnsForCause ==
    [][recvOp' = "recv" /\ (received' # received \/ (rxState' = "ended" /\ rxState # "ended")) =>
          IF recvLast' = "msg"
          THEN /\ queue # <<>>
               /\ received' = Append(received, Head(queue))
               /\ queue' = Tail(queue)
               /\ rxState' = rxState
          ELSE /\ recvLast' = "closed"
               /\ queue = <<>>
               /\ \A h \in SenderIds : senders[h] # "live"
               /\ UNCHANGED <<queue, received>>]_vars

\* C28: recv never returns spuriously: while the queue is empty and a producer
\* is alive a recv stays blocked; it returns a message only if a send enqueued
\* it, and "closed" only when the queue is empty and no producer is left.
C28_RecvNeverSpurious == []RecvBlockedWhileEmpty /\ RecvReturnsForCause

\* recv has returned a message and the next recv is blocked: the queue is empty
\* and a Sender that has more to send is alive
C28_Witness ==
    /\ rxState = "open"
    /\ recvOp = "recv"
    /\ recvLast = "msg"
    /\ queue = <<>>
    /\ \E h \in SenderIds : senders[h] = "live" /\ sent[h] < Len(Vals)
    /\ ~ENABLED Recv

\* C24 (state part): the receive loop has ended only if no Sender handle is
\* alive, tx or its clone, nothing is left in the queue and every message sent
\* was received: all 8 when both handles sent their vals.
LoopEndsOnlyWhenAllDropped ==
    rxState # "open" =>
        /\ \A h \in SenderIds : senders[h] # "live"
        /\ queue = <<>>
        /\ Len(received) = TotalSent(SenderIds)
        /\ (\A h \in SenderIds : senders[h] = "dropped") =>
               Len(received) = NumSenders * Len(Vals)

\* C24: in multiple_producers the receive loop over rx terminates, and only
\* after both producer handles, tx and its clone tx1, have been dropped and all
\* 8 messages sent have been received; the drop of one of the two handles
\* alone never ends the loop.
C24_LoopEndsAfterAllSenders == []LoopEndsOnlyWhenAllDropped /\ <>(rxState # "open")

\* the loop has ended: both handles are dropped and the 8 messages were received
C24_Witness ==
    /\ rxState = "ended"
    /\ \A h \in SenderIds : senders[h] = "dropped"
    /\ Len(received) = 8

\* C26: thread() returns only after the spawned thread has terminated: whenever
\* the function has returned, the spawned thread has completed all 9 iterations
\* of 1..10 and the main thread all 4 iterations of 1..5.
C26_ReturnsAfterSpawnedDone ==
    mainAt = "returned" =>
        /\ handleAt = "done"
        /\ handleHi = 9
        /\ handleI = 10
        /\ mainHi = 4
        /\ mainI = 5

\* thread() has returned, after 4 lines of the main thread and 9 of the spawned
C26_Witness ==
    /\ mainAt = "returned"
    /\ mainHi = 4
    /\ handleHi = 9
    /\ ~ENABLED ThrNext

\* C23 (state part): in channel() neither recv nor send has failed; a recv
\* that has returned has returned "hi", the value of the spawned thread; and rx
\* is dropped only after recv has returned.
ChannelNeverClosed ==
    /\ recvLast # "closed"
    /\ sendLast # "closed"
    /\ recvOp = "recv" => received = <<[src |-> 1, val |-> "hi"]>>
    /\ rxState = "dropped" => recvOp = "recv" /\ sendLast = "ok"

\* C23 (step part): the recv of channel() returns the message in every state
\* where it returns, the ones where tx is dropped already included.
ChannelRecvTakesHi ==
    [][recvOp = "none" /\ recvOp' = "recv" =>
          /\ queue = <<[src |-> 1, val |-> "hi"]>>
          /\ recvLast' = "msg"
          /\ queue' = <<>>]_vars

\* C23: in channel(), under every interleaving of the spawned sender thread and
\* the main thread, rx.recv() returns the value "hi" sent by the spawned thread
\* and never "closed", also when the sender has sent and dropped tx before recv
\* is called; and tx.send never fails, rx being alive until recv has returned.
C23_ChannelReceivesHi == []ChannelNeverClosed /\ ChannelRecvTakesHi

\* recv has returned "hi" from a channel whose only Sender is dropped, and rx
\* is still alive
C23_Witness ==
    /\ thrVars = <<"spawn", 1, 0, "none", 1, 0>>
    /\ recvOp = "recv"
    /\ recvLast = "msg"
    /\ received = <<[src |-> 1, val |-> "hi"]>>
    /\ senders[1] = "dropped"
    /\ sendLast = "ok"
    /\ rxState = "open"

\* tree() after line 272: leaf is allocation 1 and branch allocation 2, each
\* held by its local, and leaf also by branch.children
TreeHandles ==
    /\ nNodes = 2
    /\ value[1] = LeafValue /\ value[2] = BranchValue
    /\ children[1] = <<>> /\ children[2] = <<1>>
    /\ locals[1] = 1
    /\ destroyed[1] = 0 /\ destroyed[2] = 0
    /\ parent[2] = NoNode

\* tree() between lines 272 and 275: leaf.parent is still Weak::new()
TreeBuilt == TreeHandles /\ locals[2] = 1 /\ parent[1] = NoNode

\* tree() after line 275: leaf.parent points at branch
TreeLinked == TreeHandles /\ locals[2] = 1 /\ parent[1] = 2

\* tree() inside line 278: the Option<Rc<Node>> that upgrade returned is alive
TreeUpgraded == TreeHandles /\ locals[2] = 2 /\ parent[1] = 2

\* C29 (state part): while tree() holds its handles, leaf has strong_count 2
\* and branch strong_count 1, or 2 while the upgraded temporary lives; branch
\* has weak_count 0 before the downgrade and 1 after it; no node is destroyed
\* twice, and once every local is gone every node has been destroyed.
TreeCounts ==
    /\ TreeHandles => StrongCount(1) = 2
    /\ TreeBuilt => StrongCount(2) = 1 /\ WeakCount(2) = 0
    /\ TreeLinked => StrongCount(2) = 1 /\ WeakCount(2) = 1
    /\ TreeUpgraded => StrongCount(2) = 2 /\ WeakCount(2) = 1
    /\ \A n \in Allocated : destroyed[n] <= 1
    /\ (\A n \in Allocated : locals[n] = 0) => \A n \in Allocated : destroyed[n] = 1

\* C29 (step part): the downgrade stored in leaf.parent changes no strong
\* count; the upgrade of leaf.parent returns a handle to branch; the drop of
\* that handle brings tree() back to where it was after the downgrade.
TreeSteps ==
    [][/\ TreeBuilt /\ parent'[1] = 2 => TreeLinked' /\ strong' = strong
       /\ TreeLinked /\ rcLast'.op = "upgrade" /\ rcLast'.node = 2 /\ rcLast' # rcLast =>
              rcLast'.res = 2 /\ rcLast'.val = BranchValue /\ TreeUpgraded'
       /\ TreeUpgraded /\ locals'[2] = 1 =>
              TreeLinked' /\ UNCHANGED <<weak, destroyed, freed, parent, children>>]_vars

\* C29: in tree(), Rc::downgrade(&branch) raises branch's weak_count from 0 to
\* 1 and leaves its strong_count at 1; the final upgrade returns a present
\* handle (strong_count 2 only while that temporary lives) which is dropped at
\* once, so branch's strong_count is 1 again; leaf's strong_count stays 2 from
\* branch's creation until function exit, where both nodes are destroyed
\* exactly once.
C29_TreeCounts == []TreeCounts /\ TreeSteps

\* tree() has returned: branch was dropped first, then leaf, whose drop was the
\* last handle and took the Weak in leaf.parent with it; both nodes are
\* destroyed once and both control blocks released
C29_Witness ==
    /\ nNodes = 2
    /\ value[1] = LeafValue /\ value[2] = BranchValue
    /\ locals[1] = 0 /\ locals[2] = 0
    /\ destroyed[1] = 1 /\ destroyed[2] = 1
    /\ freed[1] = 1 /\ freed[2] = 1
    /\ rcLast = RcOp("drop", 1, 1, 1, 1)

\* reference_cycle after line 245: the Nil of line 239 is allocation 1, a is 2
\* and b is 3; a's tail is b and b's tail is a, and no handle to Nil is held
CycleMade ==
    /\ nCells = 3
    /\ kind[1] = "Nil" /\ kind[2] = "Cons" /\ kind[3] = "Cons"
    /\ tail(2) = <<3>> /\ tail(3) = <<2>>
    /\ held[1] = 0

\* C22: in reference_cycle, once a's tail has been redirected to b, a and b
\* each have strong_count 2; once the local handles a and b are dropped each
\* strong_count is 1, not 0, and neither Cons value is destroyed, while the Nil
\* tail that was replaced has been destroyed exactly once.
C22_CycleLeaks ==
    CycleMade =>
        /\ cells.destroyed[1] = 1
        /\ cells.destroyed[2] = 0 /\ cells.destroyed[3] = 0
        /\ cells.strong[2] = 1 + held[2]
        /\ cells.strong[3] = 1 + held[3]
        /\ held[2] = 1 /\ held[3] = 1 => cells.strong[2] = 2 /\ cells.strong[3] = 2
        /\ held[2] = 0 /\ held[3] = 0 =>
              /\ cells.strong[2] = 1 /\ cells.strong[3] = 1
              /\ ~ENABLED CycDrop(2) /\ ~ENABLED CycDrop(3)
              /\ ~ENABLED SetTail(2, 3) /\ ~ENABLED SetTail(3, 2)

\* reference_cycle has returned: a and b are dropped and left with strong
\* count 1 each, not destroyed; the Nil is destroyed and its block released
C22_Witness ==
    /\ CycleMade
    /\ held = [n \in CellIds |-> 0]
    /\ cells.strong[2] = 1 /\ cells.strong[3] = 1
    /\ cells.destroyed[1] = 1 /\ cells.freed[1] = 1
    /\ cells.destroyed[2] = 0 /\ cells.destroyed[3] = 0
    /\ cells.freed[2] = 0 /\ cells.freed[3] = 0

\* C30 (state part): the calculation has run at most once, and once value has
\* been called it has run exactly once, on the first argument; the last call
\* returned what that run returned, whatever its own argument.
CachedOnce ==
    /\ invoked <= 1
    /\ valueCalls >= 1 =>
          /\ invoked = 1
          /\ cached = Some(calculation(firstArg))
          /\ lastValue = Some(calculation(firstArg))

\* C30 (step part): only the first call of value runs the calculation; a later
\* call leaves the cached value as it is.
OnlyFirstCallCalculates ==
    [][valueCalls' # valueCalls =>
          IF valueCalls = 0
          THEN invoked' = invoked + 1
          ELSE UNCHANGED <<cached, invoked>>]_vars

\* C30: over any sequence of Cacher::value calls the stored calculation is
\* invoked at most once (on the first call); every later call returns the value
\* cached by the first call whatever argument it is given, even an argument
\* different from the first one.
C30_CalculatedOnce == []CachedOnce /\ OnlyFirstCallCalculates

\* the third call of value, with argument 2, has returned 1, the result for the
\* argument of the first call
C30_Witness ==
    /\ valueCalls = 3
    /\ firstArg = U32Of(0, 1)
    /\ lastArg = U32Of(0, 2)
    /\ lastValue = Some(U32Of(0, 1))
    /\ invoked = 1

\* the positions of the lines of contents that contain query, case-sensitively
Matching == {i \in 1..Len(lines(contents)) : contains(lines(contents)[i], query)}

\* C21: search(query, contents) returns exactly the lines of contents that
\* contain query as a case-sensitive substring, in their original order: the
\* k-th result is the k-th matching line. A line that matches only when case is
\* ignored is not returned.
C21_SearchCaseSensitive ==
    searched =>
        /\ Len(results) = Cardinality(Matching)
        /\ \A i \in Matching :
              results[Cardinality({j \in Matching : j <= i})] = lines(contents)[i]
        /\ \A i \in 1..Len(lines(contents)) :
              /\ ~contains(lines(contents)[i], query)
              /\ contains(to_lowercase(lines(contents)[i]), to_lowercase(query))
              => \A k \in 1..Len(results) : results[k] # lines(contents)[i]

\* query "du" on the lines "Du" and "du": search has returned the second line
\* alone, the first matches only when case is ignored
C21_Witness ==
    /\ searched
    /\ query = <<"d", "u">>
    /\ contents = <<"D", "u", "\n", "d", "u">>
    /\ results = << <<"d", "u">> >>

\* C25 (state part): nine threads at most are spawned; the threads between
\* lock and the end of their closure are at most one, and the Mutex is locked
\* exactly while there is one; the counter is the number of threads that have
\* made their increment; a join returns only for a thread that has ended; and
\* once the function has returned the counter is 9.
MtsCounts ==
    /\ mtsHandles <= 9 /\ mtsJoined <= mtsHandles
    /\ \A t \in MtsThreads : mtsPc[t] # "none" <=> t <= mtsHandles
    /\ Cardinality({t \in MtsThreads : mtsPc[t] \in {"add", "end"}}) <= 1
    /\ mtsLocked <=> \E t \in MtsThreads : mtsPc[t] \in {"add", "end"}
    /\ mtsNum = Cardinality({t \in MtsThreads : mtsPc[t] \in {"end", "done"}})
    /\ \A t \in MtsThreads : t <= mtsJoined => mtsPc[t] = "done"
    /\ mtsMain = "returned" =>
          /\ mtsHandles = 9 /\ mtsJoined = 9
          /\ mtsNum = 9

\* C25 (the end): the function has returned, every thread having had the lock
\* and ended, with the counter at 9 and the Mutex unlocked.
MtsAllJoined ==
    /\ mtsMain = "returned"
    /\ \A t \in MtsThreads : mtsPc[t] = "done"
    /\ mtsNum = 9
    /\ ~mtsLocked

\* C25: multiple_threads_share spawns exactly 9 threads (range 1..10), each
\* incrementing the shared counter once under the lock; under every
\* interleaving every thread eventually acquires the lock, every join returns,
\* and the counter equals 9 after the last join: no deadlock, no thread blocked
\* forever.
C25_NineThreadsFinish ==
    /\ []MtsCounts
    /\ \A t \in MtsThreads : <>(mtsPc[t] \in {"add", "end", "done"})
    /\ <>[]MtsAllJoined

\* the ninth thread waits in lock while the eighth holds the guard, the main
\* thread waits in join for the first, and six threads have ended
C25_Witness ==
    /\ mtsMain = "join"
    /\ mtsJoined = 0
    /\ mtsPc[1] = "lock"
    /\ mtsPc[8] = "end"
    /\ mtsPc[9] = "lock"
    /\ ~ENABLED MtsLock(9)
    /\ ~ENABLED MtsJoin
    /\ mtsNum = 7

====
